---- MODULE Spec2Model ----
(***************************************************************************)
(* Hybrid retrieval (hybrid_search / match_segments / searchSegments /     *)
(* search) and the judged-quality evaluation harness (evaluateWithRagas,   *)
(* aggregateResults, the RAGAS and search evaluation scripts).             *)
(*                                                                         *)
(* Numbers.  Scores are rationals kept as integers over a fixed            *)
(* denominator: a cosine similarity s stands for s / SimScale, a weight w  *)
(* for w / WeightScale, a judge score or threshold v for v / 100.          *)
(* Floating-point rounding is not modelled.                                *)
(***************************************************************************)
EXTENDS Integers, Sequences, FiniteSets, TLC

\* ------------------------------------------------------------------ bounds
NumPassages == 2
MaxMatchCount == 2
MaxQueries == 3
MaxWordLen == 4
MaxResults == 4
MaxBenchmark == 2
MaxInputs == 3

\* ------------------------------------------------------- program constants
\* LIMIT match_count * 5 of the semantic CTE
OverFetch == 5
\* SEARCH_CONFIG.semanticWeight and keywordWeight, in tenths
DefaultSemanticWeight == 7
DefaultKeywordWeight == 3
\* weight denominator: the weight 1.0
WeightScale == DefaultSemanticWeight + DefaultKeywordWeight
\* RAGAS_THRESHOLDS, in hundredths
TargetFaithfulness == 85
TargetAnswerRelevancy == 80
TargetContextPrecision == 75
\* RAGAS_ALERT_THRESHOLDS, in hundredths
AlertFaithfulness == 70
AlertAnswerRelevancy == 65
AlertContextPrecision == 60
\* a null score (faithfulness: null)
NULL == -1

Passages == 1..NumPassages
\* 1 - (embedding <=> query_embedding), as multiples of 1 / SimScale: -0.5, 0.5, 1
SimVals == {-1, 1, 2}
\* similarity denominator: the similarity 1.0 (cosine distance 0)
SimScale == 2 * 1
\* ts_rank_cd of a passage that matches the tsquery
RankVals == {1, 2}
\* (semantic_weight, keyword_weight); the first is SEARCH_CONFIG's default
WeightPairs == {<<DefaultSemanticWeight, DefaultKeywordWeight>>, <<2, 8>>}
\* match_threshold; 0 is SEARCH_CONFIG.defaultThreshold
ThresholdVals == {0, 1}

VARIABLES
  \* the segments table and the query, read-only to the search code
  embedded,        \* segments with s.embedding IS NOT NULL
  sim,             \* segment -> cosine similarity to the query embedding
  kwmatch,         \* segments with to_tsvector(text) @@ or_tsquery
  rank,            \* segment -> ts_rank_cd(to_tsvector(text), or_tsquery)
  matchCount, semanticWeight, keywordWeight, matchThreshold,
  \* the database function hybrid_search, invoked repeatedly on the same inputs
  lastHybrid,      \* <<rows>> of the latest invocation, <<>> before the first
  prevHybrid,      \* <<rows>> of the invocation before it
  \* one search() / searchSegments() call
  pc,              \* position in the call
  semanticOnly,    \* options.semanticOnly
  semanticUp,      \* whether the match_segments rpc answers without an error
  rpcError,        \* error of the hybrid_search rpc: "none", or an RpcErrors kind
  data,            \* rows the rpc layer handed back (searchSegments' return value)
  outcome,         \* what search() did: [kind, rows]
  \* one evaluateWithRagas() call and its subprocess
  jpc,             \* "idle", "waiting" (awaiting runPythonScript), "returned"
  timer,           \* the setTimeout handle: "none", "armed", "fired", "cleared"
  proc,            \* the child process: "none", "running", "killed", "closed"
  spawnFailed,     \* the 'error' event has been emitted
  promise,         \* runPythonScript's promise: [state, reason, scores]
  cause,           \* the event that settled the promise: [event, exitZero, out]
  record,          \* what evaluateWithRagas gave its caller
  \* one run of an evaluation script (evaluate-ragas / evaluate-search)
  script,          \* "ragas" or "search"
  langfuseKeys,    \* LANGFUSE_SECRET_KEY and LANGFUSE_PUBLIC_KEY are set
  azureOpenAI,     \* the three AZURE_OPENAI_* variables are set
  openAI,          \* OPENAI_API_KEY is set
  dryRun,          \* --dry-run
  compare,         \* --compare
  numQueries,      \* length of the filtered benchmark; its queries are 1..numQueries
  rpc,             \* position in main
  algo,            \* index of the current pass of the algorithms loop
  qi,              \* index of the query the loop is at
  results,         \* the results array of the current pass
  attempted,       \* queries whose evaluation was started in this pass, in order
  errored,         \* queries of this pass that threw, timed out or got a judge error
  report,          \* the aggregate printed for the current pass
  reports,         \* number of aggregate reports printed
  exitCode,        \* the process exit code once rpc = "exited"
  diagnostic,      \* the configuration error printed: "none", "langfuse", "llm"
  \* one application of a pure function
  fnArg,           \* the arguments drawn for it
  fnVal,           \* "none" before the call, then [fn, out]
  \* one evaluateBatch() call
  inputs,          \* the inputs array
  concurrency,     \* options.concurrency
  bpc,             \* "idle", "loop", "awaiting" (the Promise.all), "returned"
  bi,              \* the loop variable i
  calls,           \* input index -> the evaluateWithRagas call made for it
  allResults,      \* the results array
  completed,       \* indices of the calls that have returned, in that order
  \* one withRetry() call
  wpc,             \* "idle", "calling" (awaiting fn), "sleeping", "returned", "thrown"
  attempt,         \* the loop variable
  delay,           \* the base delay, in ms
  lastError,       \* the kind of the error caught last, "none" before
  waits,           \* the waitTime of every sleep so far, in ms
  fnCalls          \* number of calls of fn so far

corpusVars == <<embedded, sim, kwmatch, rank, matchCount, semanticWeight,
                keywordWeight, matchThreshold>>
hybridVars == <<lastHybrid, prevHybrid>>
searchVars == <<pc, semanticOnly, semanticUp, rpcError, data, outcome>>

judgeVars == <<jpc, timer, proc, spawnFailed, promise, cause, record>>
runVars == <<script, langfuseKeys, azureOpenAI, openAI, dryRun, compare, numQueries,
             rpc, algo, qi, results, attempted, errored, report, reports, exitCode,
             diagnostic>>
fnVars == <<fnArg, fnVal>>
batchVars == <<inputs, concurrency, bpc, bi, calls, allResults, completed>>
retryVars == <<wpc, attempt, delay, lastError, waits, fnCalls>>

vars == <<corpusVars, hybridVars, searchVars, judgeVars, runVars, fnVars, batchVars, retryVars>>

\* ----------------------------------------------------------- initial values

NullScores(msg) ==
  [faithfulness |-> NULL, answer_relevancy |-> NULL, context_precision |-> NULL,
   error |-> msg]

Pending == [state |-> "pending", reason |-> "null", scores |-> NullScores("null")]


NoRecord == [kind |-> "none", scores |-> NullScores("null"), passed |-> FALSE]

NoCause == [event |-> "none", exitZero |-> FALSE, out |-> "empty"]

\* a / b of two numbers: a fraction, or no finite number (NaN, Infinity) when
\* the divisor is 0
Quotient(a, b) ==
  IF b = 0 THEN [nan |-> TRUE, num |-> a, den |-> 0]
  ELSE [nan |-> FALSE, num |-> a, den |-> b]

\* the number 0
Zero == [nan |-> FALSE, num |-> 0, den |-> 1]

NoReport ==
  [count |-> 0, passed |-> 0, failed |-> 0, valid |-> 0,
   sums |-> [faithfulness |-> 0, answer_relevancy |-> 0, context_precision |-> 0],
   passRate |-> Zero,
   averages |-> [faithfulness |-> Zero, answer_relevancy |-> Zero,
                 context_precision |-> Zero]]

RunIdle ==
  /\ script = "ragas"
  /\ langfuseKeys = TRUE /\ azureOpenAI = TRUE /\ openAI = TRUE
  /\ dryRun = FALSE /\ compare = FALSE
  /\ numQueries = 0
  /\ rpc = "start"
  /\ algo = 1
  /\ qi = 1
  /\ results = <<>>
  /\ attempted = <<>>
  /\ errored = {}
  /\ report = NoReport
  /\ reports = 0
  /\ exitCode = 0
  /\ diagnostic = "none"

\* no pure function is being applied
NoCall == [fn |-> "none"]

FnIdle == fnArg = NoCall /\ fnVal = NoCall

\* withRetry is not called
RetryIdle ==
  /\ wpc = "idle"
  /\ attempt = 0
  /\ delay = 0
  /\ lastError = "none"
  /\ waits = <<>>
  /\ fnCalls = 0

\* evaluateBatch is not called
BatchIdle ==
  /\ inputs = <<>>
  /\ concurrency = 1
  /\ bpc = "idle"
  /\ bi = 0
  /\ calls = <<>>
  /\ allResults = <<>>
  /\ completed = <<>>

JudgeIdle ==
  /\ jpc = "idle"
  /\ timer = "none"
  /\ proc = "none"
  /\ spawnFailed = FALSE
  /\ promise = Pending
  /\ cause = NoCause
  /\ record = NoRecord

HybridIdle == lastHybrid = <<>> /\ prevHybrid = <<>>

SearchIdle ==
  /\ pc = "idle"
  /\ semanticOnly = FALSE
  /\ semanticUp = TRUE
  /\ rpcError = "none"
  /\ data = <<>>
  /\ outcome = [kind |-> "none", rows |-> <<>>]

\* an empty segments table and the default query options: the corpus of the
\* specifications that do not search
CorpusParked ==
  /\ embedded = {} /\ kwmatch = {}
  /\ sim = [p \in Passages |-> 1]
  /\ rank = [p \in Passages |-> 0]
  /\ matchCount = 1
  /\ semanticWeight = DefaultSemanticWeight
  /\ keywordWeight = DefaultKeywordWeight
  /\ matchThreshold = 0

\* ------------------------------------------------------------ hybrid_search

Max(S) == CHOOSE x \in S : \A y \in S : y <= x

Min2(a, b) == IF a < b THEN a ELSE b

\* mutant: the divisor is the NULL/0 default whatever the raw ranks are
max_keyword_rank_NotNormalized ==
  IF kwmatch = {} THEN 1 ELSE 1

\* SELECT MAX(ts_rank_cd(..)) .. WHERE .. @@ or_tsquery; NULL or 0 becomes 1
max_keyword_rank ==
  IF kwmatch = {} THEN 1
  ELSE IF Max({rank[p] : p \in kwmatch}) = 0 THEN 1
  ELSE Max({rank[p] : p \in kwmatch})

\* WHERE s.embedding IS NOT NULL AND 1 - (embedding <=> query) > match_threshold
AboveThreshold == {p \in embedded : sim[p] > matchThreshold}

\* ORDER BY distance LIMIT n: any n rows no farther than every row left out
TopBySimilarity(elig, n) ==
  IF Cardinality(elig) <= n THEN {elig}
  ELSE {S \in SUBSET elig :
          /\ Cardinality(S) = n
          /\ \A a \in S, b \in elig \ S : sim[a] >= sim[b]}

\* the semantic CTE: LIMIT match_count * 5
SemanticSets == TopBySimilarity(AboveThreshold, matchCount * OverFetch)

\* LIMIT n with no ORDER BY: any n rows
AnyLimit(elig, n) ==
  IF Cardinality(elig) <= n THEN {elig}
  ELSE {S \in SUBSET elig : Cardinality(S) = n}

\* the keyword_only CTE
KeywordOnlySets(sem) ==
  AnyLimit({p \in embedded : p \in kwmatch /\ p \notin sem}, matchCount)

\* mutant: the join loses the lexical score (every row gets the COALESCE default)
KeywordRankNum_Dropped(p) == 0

\* LEFT JOIN keyword: COALESCE(kw.normalized_rank, 0), as a numerator over
\* max_keyword_rank
KeywordRankNum(p) == IF p \in kwmatch THEN rank[p] ELSE 0

\* combined_score over the denominator SimScale * WeightScale * max_keyword_rank
CombinedScore(p) ==
  sim[p] * semanticWeight * max_keyword_rank
    + KeywordRankNum(p) * keywordWeight * SimScale

HybridRow(p) ==
  [id |-> p,
   hybrid |-> TRUE,
   semantic_similarity |-> sim[p],
   keyword_rank |-> KeywordRankNum(p),
   combined_score |-> CombinedScore(p)]

\* injective sequences of length n over S
Arrangements(S, n) ==
  {q \in [1..n -> S] : \A i, j \in 1..n : i # j => q[i] # q[j]}

\* whether the sort may put row a before row b (ORDER BY combined_score DESC);
\* rows of equal score come in whatever order the executor yields
ScoreOrderAllows(a, b) == CombinedScore(a) >= CombinedScore(b)

\* ORDER BY combined_score DESC LIMIT match_count
OrderByScoreLimit(comb, n) ==
  LET k == Min2(n, Cardinality(comb))
  IN {q \in Arrangements(comb, k) :
        /\ \A i \in 1..(k - 1) : ScoreOrderAllows(q[i], q[i + 1])
        /\ \A i \in 1..k, b \in comb \ {q[j] : j \in 1..k} :
             ScoreOrderAllows(q[i], b)}

\* combined: semantic UNION keyword_only
Combined(sem, ko) == sem \cup ko

\* every result hybrid_search can return on the current corpus and parameters
HybridSearchOutputs ==
  UNION {UNION {{[i \in 1..Len(q) |-> HybridRow(q[i])] :
                   q \in OrderByScoreLimit(Combined(sem, ko), matchCount)} :
                ko \in KeywordOnlySets(sem)} :
         sem \in SemanticSets}

\* ----------------------------------------------------------- match_segments

\* ORDER BY distance LIMIT match_count; equal distances in the executor's order
OrderBySimilarityLimit(elig, n) ==
  LET k == Min2(n, Cardinality(elig))
  IN {q \in Arrangements(elig, k) :
        /\ \A i \in 1..(k - 1) : sim[q[i]] >= sim[q[i + 1]]
        /\ \A i \in 1..k, b \in elig \ {q[j] : j \in 1..k} : sim[q[i]] >= sim[b]}

\* a match_segments row: it has the column similarity and none of the columns
\* hybrid_search adds (row.combined_score is undefined), which is hybrid |-> FALSE
MatchRow(p) == [id |-> p, hybrid |-> FALSE, similarity |-> sim[p]]

MatchSegmentsOutputs ==
  {[i \in 1..Len(q) |-> MatchRow(q[i])] :
     q \in OrderBySimilarityLimit(AboveThreshold, matchCount)}

\* ------------------------------------------------- the corpus and the query

CorpusInit ==
  /\ embedded \in SUBSET Passages
  /\ sim \in [Passages -> SimVals]
  /\ \A p \in Passages : p \notin embedded => sim[p] = 1
  /\ kwmatch \in SUBSET Passages
  /\ rank \in [Passages -> RankVals \cup {0}]
  /\ \A p \in Passages : p \notin kwmatch => rank[p] = 0
  /\ matchCount \in 1..MaxMatchCount
  /\ \E w \in WeightPairs : semanticWeight = w[1] /\ keywordWeight = w[2]
  /\ matchThreshold \in ThresholdVals

\* ---------------------------------------------- hybrid_search, invoked twice

\* one execution of the database function; the one before it is kept
InvokeHybridSearch ==
  /\ \E out \in HybridSearchOutputs :
       /\ lastHybrid' = <<out>>
       /\ prevHybrid' = lastHybrid
  /\ UNCHANGED <<retryVars, batchVars, fnVars, judgeVars, runVars, corpusVars, searchVars>>

HybridInit == CorpusInit /\ HybridIdle /\ SearchIdle /\ JudgeIdle /\ RunIdle /\ FnIdle /\ BatchIdle /\ RetryIdle

HybridNext == InvokeHybridSearch

SpecHybrid == HybridInit /\ [][HybridNext]_vars

\* ------------------------------------------------- searchSegments and search

\* error.message of a failed hybrid_search rpc: "missing" stands for the
\* messages that contain "hybrid_search" (function not found), "other" for
\* those that do not (timeout, connection reset, statement error)
RpcErrors == {"missing", "other"}

\* error.message.includes("hybrid_search")
MentionsHybridSearch(err) == err = "missing"

\* whether searchSegments falls back to match_segments on this rpc error
FallsBack(err) == MentionsHybridSearch(err)

\* row.combined_score ?? row.similarity
ResultSimilarity(row) == IF row.hybrid THEN row.combined_score ELSE row.similarity

\* the rows of data whose episode was found and whose guest passes the filter
\* (keep), mapped to SearchResult, then results.slice(0, limit)
TransformRows(rows, keep, limit) ==
  LET kept == SelectSeq(rows, LAMBDA r : r.id \in keep)
      res == [i \in 1..Len(kept) |->
                [id |-> kept[i].id,
                 hybrid |-> kept[i].hybrid,
                 similarity |-> ResultSimilarity(kept[i])]]
  IN SubSeq(res, 1, Min2(limit, Len(res)))

Thrown == [kind |-> "thrown", rows |-> <<>>]

\* search() is called with the stored query and options
CallSearch ==
  /\ pc = "idle"
  /\ \E so \in BOOLEAN, up \in BOOLEAN :
       /\ semanticOnly' = so
       /\ semanticUp' = up
       /\ pc' = IF so THEN "rpc_match" ELSE "rpc_hybrid"
  /\ rpcError' = "none"
  /\ data' = <<>>
  /\ outcome' = [kind |-> "none", rows |-> <<>>]
  /\ UNCHANGED <<retryVars, batchVars, fnVars, judgeVars, runVars, corpusVars, hybridVars>>

\* semanticOnly: match_segments answers (search.ts:138-144)
RpcMatchOk ==
  /\ pc = "rpc_match"
  /\ semanticUp
  /\ \E out \in MatchSegmentsOutputs : data' = out
  /\ pc' = "transform"
  /\ UNCHANGED <<retryVars, batchVars, fnVars, judgeVars, runVars, corpusVars, hybridVars, semanticOnly, semanticUp, rpcError, outcome>>

\* semanticOnly: match_segments errors, search throws (search.ts:143)
RpcMatchError ==
  /\ pc = "rpc_match"
  /\ ~semanticUp
  /\ pc' = "idle"
  /\ outcome' = Thrown
  /\ UNCHANGED <<retryVars, batchVars, fnVars, judgeVars, runVars, corpusVars, hybridVars, semanticOnly, semanticUp, rpcError, data>>

\* the hybrid_search rpc answers: searchSegments returns data (search.ts:110)
RpcHybridOk ==
  /\ pc = "rpc_hybrid"
  /\ \E out \in HybridSearchOutputs : data' = out
  /\ pc' = "transform"
  /\ UNCHANGED <<retryVars, batchVars, fnVars, judgeVars, runVars, corpusVars, hybridVars, semanticOnly, semanticUp, rpcError, outcome>>

\* the hybrid_search rpc errors (search.ts:95-108)
RpcHybridError ==
  /\ pc = "rpc_hybrid"
  /\ \E err \in RpcErrors :
       /\ rpcError' = err
       /\ IF FallsBack(err)
          THEN pc' = "rpc_fallback" /\ outcome' = outcome
          ELSE pc' = "idle" /\ outcome' = Thrown
  /\ UNCHANGED <<retryVars, batchVars, fnVars, judgeVars, runVars, corpusVars, hybridVars, semanticOnly, semanticUp, data>>

\* the fallback rpc answers: searchSegments returns fallbackData (search.ts:105)
FallbackOk ==
  /\ pc = "rpc_fallback"
  /\ semanticUp
  /\ \E out \in MatchSegmentsOutputs : data' = out
  /\ pc' = "transform"
  /\ UNCHANGED <<retryVars, batchVars, fnVars, judgeVars, runVars, corpusVars, hybridVars, semanticOnly, semanticUp, rpcError, outcome>>

\* the fallback rpc errors too: searchSegments throws (search.ts:104)
FallbackError ==
  /\ pc = "rpc_fallback"
  /\ ~semanticUp
  /\ pc' = "idle"
  /\ outcome' = Thrown
  /\ UNCHANGED <<retryVars, batchVars, fnVars, judgeVars, runVars, corpusVars, hybridVars, semanticOnly, semanticUp, rpcError, data>>

\* search.ts:155-211: empty data returns [], else the episode join, the guest
\* filter and the slice
Transform ==
  /\ pc = "transform"
  /\ \E keep \in SUBSET {data[i].id : i \in 1..Len(data)} :
       outcome' = [kind |-> "returned",
                   rows |-> TransformRows(data, keep, matchCount)]
  /\ pc' = "idle"
  /\ UNCHANGED <<retryVars, batchVars, fnVars, judgeVars, runVars, corpusVars, hybridVars, semanticOnly, semanticUp, rpcError, data>>

SearchInit == CorpusInit /\ HybridIdle /\ SearchIdle /\ JudgeIdle /\ RunIdle /\ FnIdle /\ BatchIdle /\ RetryIdle

SearchNext ==
  \/ CallSearch
  \/ RpcMatchOk
  \/ RpcMatchError
  \/ RpcHybridOk
  \/ RpcHybridError
  \/ FallbackOk
  \/ FallbackError
  \/ Transform

SpecSearch == SearchInit /\ [][SearchNext]_vars

\* ------------------------------------------------- the judge (lib/evaluation)

\* scores the judge can report, in hundredths
FaithfulnessVals == {NULL, 69, 84, TargetFaithfulness, 100}
AnswerRelevancyVals == {NULL, 79, TargetAnswerRelevancy}
ContextPrecisionVals == {NULL, 74, TargetContextPrecision}

\* the RagasScores a successful parse can resolve with (error is falsy)
JudgeScores ==
  [faithfulness : FaithfulnessVals,
   answer_relevancy : AnswerRelevancyVals,
   context_precision : ContextPrecisionVals,
   error : {"null"}]

\* what the child has written to stdout when 'close' fires
StdoutKinds == {"empty", "garbage", "json_error", "json_scores"}

Resolved(sc) == [state |-> "resolved", reason |-> "null", scores |-> sc]

Rejected(msg) == [state |-> "rejected", reason |-> msg, scores |-> NullScores("null")]

\* mutant: a later settlement replaces the earlier one
Settle_Overwrite(p, settlement) == settlement

\* resolve() / reject() on a promise: only the first settlement counts
Settle(p, settlement) == IF p.state = "pending" THEN settlement ELSE p

\* mutant: targets compared strictly, as the doc comments put it ("Target: > 0.85")
checkThresholds_Strict(scores) ==
  /\ scores.error = "null"
  /\ scores.faithfulness # NULL
  /\ scores.answer_relevancy # NULL
  /\ scores.context_precision # NULL
  /\ scores.faithfulness > TargetFaithfulness
  /\ scores.answer_relevancy > TargetAnswerRelevancy
  /\ scores.context_precision > TargetContextPrecision

\* ragas.ts:173-187
checkThresholds(scores) ==
  IF scores.error # "null" THEN FALSE
  ELSE IF \/ scores.faithfulness = NULL
          \/ scores.answer_relevancy = NULL
          \/ scores.context_precision = NULL
       THEN FALSE
  ELSE /\ scores.faithfulness >= TargetFaithfulness
       /\ scores.answer_relevancy >= TargetAnswerRelevancy
       /\ scores.context_precision >= TargetContextPrecision

\* mutant: the catch block is missing, a rejection leaves evaluateWithRagas
evaluateWithRagas_NoCatch(p) ==
  IF p.state = "resolved"
  THEN [kind |-> "returned", scores |-> p.scores, passed |-> checkThresholds(p.scores)]
  ELSE [kind |-> "thrown", scores |-> NullScores(p.reason), passed |-> FALSE]

\* ragas.ts:60-87: the record made of the settled promise
evaluateWithRagas(p) ==
  IF p.state = "resolved"
  THEN [kind |-> "returned", scores |-> p.scores, passed |-> checkThresholds(p.scores)]
  ELSE [kind |-> "returned", scores |-> NullScores(p.reason), passed |-> FALSE]

\* the 'close' handler's settlement (ragas.ts:139-155)
CloseSettlement(exitZero, out, sc) ==
  IF ~exitZero /\ out = "empty" THEN Rejected("exit_code")
  ELSE IF out \in {"empty", "garbage"} THEN Rejected("parse")
  ELSE IF out = "json_error" THEN Rejected("error_field")
  ELSE Resolved(sc)

\* evaluateWithRagas is called: spawn, setTimeout, handlers, stdin (ragas.ts:99-166)
SpawnProcess ==
  /\ jpc = "idle"
  /\ proc = "none"
  /\ jpc' = "waiting"
  /\ proc' = "running"
  /\ timer' = "armed"
  /\ UNCHANGED <<spawnFailed, promise, cause, record>>
  /\ UNCHANGED <<retryVars, batchVars, corpusVars, hybridVars, searchVars, runVars, fnVars>>

\* the timeout callback (ragas.ts:120-123)
OnTimeout ==
  /\ timer = "armed"
  /\ timer' = "fired"
  /\ proc' = IF proc = "running" THEN "killed" ELSE proc
  /\ promise' = Settle(promise, Rejected("timeout"))
  /\ cause' = IF promise.state = "pending"
              THEN [event |-> "timeout", exitZero |-> FALSE, out |-> "empty"]
              ELSE cause
  /\ UNCHANGED <<jpc, spawnFailed, record>>
  /\ UNCHANGED <<retryVars, batchVars, corpusVars, hybridVars, searchVars, runVars, fnVars>>

\* the 'close' handler (ragas.ts:136-156); a killed child closes with a
\* non-zero code (null) and whatever it had written
OnClose ==
  /\ proc \in {"running", "killed"}
  /\ \E exitZero \in BOOLEAN, out \in StdoutKinds, sc \in JudgeScores :
       /\ proc = "killed" => ~exitZero
       /\ spawnFailed => (~exitZero /\ out = "empty")
       /\ out # "json_scores" => sc = CHOOSE x \in JudgeScores : TRUE
       /\ promise' = Settle(promise, CloseSettlement(exitZero, out, sc))
       /\ cause' = IF promise.state = "pending"
                   THEN [event |-> "close", exitZero |-> exitZero, out |-> out]
                   ELSE cause
  /\ proc' = "closed"
  /\ timer' = IF timer = "armed" THEN "cleared" ELSE timer
  /\ UNCHANGED <<jpc, spawnFailed, record>>
  /\ UNCHANGED <<retryVars, batchVars, corpusVars, hybridVars, searchVars, runVars, fnVars>>

\* the 'error' handler (ragas.ts:159-162): the child could not be spawned, or
\* could not be signalled
OnError ==
  /\ proc \in {"running", "killed"}
  /\ ~spawnFailed
  /\ spawnFailed' = TRUE
  /\ timer' = IF timer = "armed" THEN "cleared" ELSE timer
  /\ promise' = Settle(promise, Rejected("spawn_error"))
  /\ cause' = IF promise.state = "pending"
              THEN [event |-> "error", exitZero |-> FALSE, out |-> "empty"]
              ELSE cause
  /\ UNCHANGED <<jpc, proc, record>>
  /\ UNCHANGED <<retryVars, batchVars, corpusVars, hybridVars, searchVars, runVars, fnVars>>

\* the await resumes: evaluateWithRagas returns its record (ragas.ts:61-87)
EvaluateReturn ==
  /\ jpc = "waiting"
  /\ promise.state # "pending"
  /\ record' = evaluateWithRagas(promise)
  /\ jpc' = "returned"
  /\ UNCHANGED <<timer, proc, spawnFailed, promise, cause>>
  /\ UNCHANGED <<retryVars, batchVars, corpusVars, hybridVars, searchVars, runVars, fnVars>>

JudgeInit == CorpusParked /\ HybridIdle /\ SearchIdle /\ JudgeIdle /\ RunIdle /\ FnIdle /\ BatchIdle /\ RetryIdle

JudgeNext ==
  \/ SpawnProcess
  \/ OnTimeout
  \/ OnClose
  \/ OnError
  \/ EvaluateReturn

SpecJudge == JudgeInit /\ [][JudgeNext]_vars

\* ------------------------------------------------------ aggregateResults

RECURSIVE SumVals(_)
SumVals(vals) == IF vals = <<>> THEN 0 ELSE Head(vals) + SumVals(Tail(vals))

\* r.scores.<metric> ?? 0
ScoreOr0(r, metric) == IF r.scores[metric] = NULL THEN 0 ELSE r.scores[metric]

\* rows.reduce((acc, r) => acc + (r.scores.<metric> ?? 0), 0)
SumScores(rows, metric) ==
  SumVals([i \in 1..Len(rows) |-> ScoreOr0(rows[i], metric)])

\* results.filter((r) => !r.scores.error)  (ragas.ts:229)
validResults(rs) == SelectSeq(rs, LAMBDA r : r.scores.error = "null")

\* mutant: the division is not guarded
Mean_Unguarded(sum, count) == Quotient(sum, count)

\* count > 0 ? sum / count : 0  (ragas.ts:247-251)
Mean(sum, count) == IF count > 0 THEN Quotient(sum, count) ELSE Zero

\* ragas.ts:218-254.  valid is validResults.length; the average of a metric is
\* sums.<metric> / valid when valid > 0 and 0 otherwise
aggregateResults(rs) ==
  LET valid == validResults(rs)
      passedResults == SelectSeq(valid, LAMBDA r : r.passed)
      sum == [faithfulness |-> SumScores(valid, "faithfulness"),
              answer_relevancy |-> SumScores(valid, "answer_relevancy"),
              context_precision |-> SumScores(valid, "context_precision")]
      count == Len(valid)
  IN [count |-> Len(rs),
      passed |-> Len(passedResults),
      failed |-> Len(rs) - Len(passedResults),
      valid |-> count,
      sums |-> sum,
      passRate |-> Mean(Len(passedResults), count),
      averages |-> [faithfulness |-> Mean(sum.faithfulness, count),
                    answer_relevancy |-> Mean(sum.answer_relevancy, count),
                    context_precision |-> Mean(sum.context_precision, count)]]

\* average < threshold, with average = count > 0 ? sum / count : 0
AverageBelow(sum, count, threshold) ==
  IF count > 0 THEN sum < threshold * count ELSE 0 < threshold

\* printResults' verdict (part_002:272)
shouldFail(aggregate) ==
  AverageBelow(aggregate.sums.faithfulness, aggregate.valid, AlertFaithfulness)

\* ------------------------------------------------------ aggregateMetrics

MetricOf(r) == r.precision_at_5

\* results.reduce((sum, r) => sum + r.precision_at_5, 0)
SumMetric(rows) == SumVals([i \in 1..Len(rows) |-> MetricOf(rows[i])])

\* evaluate-search.ts:317-341, for one of the five metrics (all are averaged
\* the same way): valid is the divisor, 0 when there is no result
aggregateMetrics(rs) ==
  [count |-> Len(rs),
   passed |-> 0,
   failed |-> 0,
   valid |-> Len(rs),
   sums |-> [faithfulness |-> SumMetric(rs),
             answer_relevancy |-> 0,
             context_precision |-> 0],
   passRate |-> Zero,
   averages |-> [faithfulness |-> (IF Len(rs) = 0 THEN Zero
                                   ELSE Quotient(SumMetric(rs), Len(rs))),
                 answer_relevancy |-> Zero,
                 context_precision |-> Zero]]

\* ------------------------------------------------- the evaluation scripts

\* scores the judge reports during a run, in hundredths
RunJudgeScores ==
  [faithfulness : {NULL, 60, TargetFaithfulness},
   answer_relevancy : {60, TargetAnswerRelevancy},
   context_precision : {50, TargetContextPrecision},
   error : {"null"}]

\* how a judge call made by the run can settle
RunSettlements == {Resolved(sc) : sc \in RunJudgeScores} \cup {Rejected("timeout")}

\* a per-query IR metric of the search evaluation, in hundredths
MetricVals == {0, 40, 100}

RunInit ==
  /\ script \in {"ragas", "search"}
  /\ langfuseKeys \in BOOLEAN
  /\ azureOpenAI \in BOOLEAN
  /\ openAI \in BOOLEAN
  /\ dryRun \in BOOLEAN
  /\ compare \in BOOLEAN
  /\ script = "ragas" => ~compare
  /\ script = "search" => (~dryRun /\ azureOpenAI /\ openAI)
  /\ numQueries \in 0..MaxQueries
  /\ rpc = "start"
  /\ algo = 1
  /\ qi = 1
  /\ results = <<>>
  /\ attempted = <<>>
  /\ errored = {}
  /\ report = NoReport
  /\ reports = 0
  /\ exitCode = 0
  /\ diagnostic = "none"
  /\ CorpusParked /\ HybridIdle /\ SearchIdle /\ JudgeIdle /\ FnIdle /\ BatchIdle /\ RetryIdle

runEnv == <<script, langfuseKeys, azureOpenAI, openAI, dryRun, compare, numQueries>>

\* mutant: the judge's LLM credentials are not validated up front
ConfigOK_LangfuseOnly == langfuseKeys

\* main's environment validation (part_002:311-327, evaluate-search.ts:370-374)
ConfigOK ==
  /\ langfuseKeys
  /\ script = "ragas" => (azureOpenAI \/ openAI)

\* the checks fail: process.exit(1) before any query
ConfigError ==
  /\ rpc = "start"
  /\ ~ConfigOK
  /\ rpc' = "exited"
  /\ exitCode' = 1
  /\ diagnostic' = IF ~langfuseKeys THEN "langfuse" ELSE "llm"
  /\ UNCHANGED <<runEnv, algo, qi, results, attempted, errored, report, reports>>
  /\ UNCHANGED <<retryVars, batchVars, corpusVars, hybridVars, searchVars, judgeVars, fnVars>>

\* --dry-run lists the queries and exits 0 (part_002:362-369)
DryRunExit ==
  /\ rpc = "start"
  /\ ConfigOK
  /\ dryRun
  /\ rpc' = "exited"
  /\ exitCode' = 0
  /\ UNCHANGED <<runEnv, diagnostic, algo, qi, results, attempted, errored, report, reports>>
  /\ UNCHANGED <<retryVars, batchVars, corpusVars, hybridVars, searchVars, judgeVars, fnVars>>

\* the checks pass and the loop over the filtered benchmark starts
StartLoop ==
  /\ rpc = "start"
  /\ ConfigOK
  /\ ~dryRun
  /\ rpc' = "loop"
  /\ UNCHANGED <<runEnv, diagnostic, algo, qi, results, attempted, errored, report, reports, exitCode>>
  /\ UNCHANGED <<retryVars, batchVars, corpusVars, hybridVars, searchVars, judgeVars, fnVars>>

\* the loop takes the next query (part_002:374-378, evaluate-search.ts:410-413)
BeginQuery ==
  /\ rpc = "loop"
  /\ qi <= numQueries
  /\ attempted' = Append(attempted, qi)
  /\ rpc' = "search"
  /\ UNCHANGED <<runEnv, diagnostic, algo, qi, results, errored, report, reports, exitCode>>
  /\ UNCHANGED <<retryVars, batchVars, corpusVars, hybridVars, searchVars, judgeVars, fnVars>>

\* evaluate-ragas evaluateQuery, step 1: search() throws (caught, null), returns
\* nothing (null) or returns results (part_002:141-149, 198-200)
RagasSearch ==
  /\ rpc = "search"
  /\ script = "ragas"
  /\ \E res \in {"throws", "empty", "results"} :
       /\ rpc' = IF res = "results" THEN "generate" ELSE "loop"
       /\ qi' = IF res = "results" THEN qi ELSE qi + 1
       /\ errored' = IF res = "throws" THEN errored \cup {qi} ELSE errored
  /\ UNCHANGED <<runEnv, diagnostic, algo, results, attempted, report, reports, exitCode>>
  /\ UNCHANGED <<retryVars, batchVars, corpusVars, hybridVars, searchVars, judgeVars, fnVars>>

\* mutant: no catch around the steps, a throw of generateAnswer leaves
\* evaluateQuery and main, and main().catch exits with code 1
RagasGenerate_Uncaught ==
  /\ rpc = "generate"
  /\ \E ok \in BOOLEAN :
       /\ rpc' = IF ok THEN "judge" ELSE "exited"
       /\ exitCode' = IF ok THEN exitCode ELSE 1
       /\ errored' = IF ok THEN errored ELSE errored \cup {qi}
  /\ UNCHANGED <<runEnv, diagnostic, algo, qi, results, attempted, report, reports>>
  /\ UNCHANGED <<retryVars, batchVars, corpusVars, hybridVars, searchVars, judgeVars, fnVars>>

\* step 2: generateAnswer returns or throws (part_002:152, 198-200)
RagasGenerate ==
  /\ rpc = "generate"
  /\ \E ok \in BOOLEAN :
       /\ rpc' = IF ok THEN "judge" ELSE "loop"
       /\ qi' = IF ok THEN qi ELSE qi + 1
       /\ errored' = IF ok THEN errored ELSE errored \cup {qi}
  /\ UNCHANGED <<runEnv, diagnostic, algo, results, attempted, report, reports, exitCode>>
  /\ UNCHANGED <<retryVars, batchVars, corpusVars, hybridVars, searchVars, judgeVars, fnVars>>

\* steps 4-5 and main's push: evaluateWithRagas returns a record, which is
\* pushed with its query (part_002:162, 191-197, 378-381)
RagasJudge ==
  /\ rpc = "judge"
  /\ \E settled \in RunSettlements :
       /\ results' = Append(results, [query |-> qi] @@ evaluateWithRagas(settled))
       /\ errored' = IF settled.state = "rejected" THEN errored \cup {qi} ELSE errored
  /\ rpc' = "loop"
  /\ qi' = qi + 1
  /\ UNCHANGED <<runEnv, diagnostic, algo, attempted, report, reports, exitCode>>
  /\ UNCHANGED <<retryVars, batchVars, corpusVars, hybridVars, searchVars, judgeVars, fnVars>>

\* evaluate-search: evaluateQuery throws (caught by the loop's try) or returns
\* the query's metrics, which are pushed (evaluate-search.ts:411-443).  The
\* trace logging that follows the push is inside the same try: a throw there is
\* logged too and leaves the pushed metrics in place, the same state as success
SearchEvaluate ==
  /\ rpc = "search"
  /\ script = "search"
  /\ \/ /\ errored' = errored \cup {qi}
        /\ UNCHANGED results
     \/ /\ \E m \in MetricVals :
             results' = Append(results, [query |-> qi, precision_at_5 |-> m])
        /\ UNCHANGED errored
  /\ rpc' = "loop"
  /\ qi' = qi + 1
  /\ UNCHANGED <<runEnv, diagnostic, algo, attempted, report, reports, exitCode>>
  /\ UNCHANGED <<retryVars, batchVars, corpusVars, hybridVars, searchVars, judgeVars, fnVars>>

\* after the loop: printResults (part_002:239-282) or the summary of the pass
\* (evaluate-search.ts:446-459)
Report ==
  /\ rpc = "loop"
  /\ qi > numQueries
  /\ report' = IF script = "ragas" THEN aggregateResults(results)
               ELSE aggregateMetrics(results)
  /\ reports' = reports + 1
  /\ rpc' = "reported"
  /\ UNCHANGED <<runEnv, diagnostic, algo, qi, results, attempted, errored, exitCode>>
  /\ UNCHANGED <<retryVars, batchVars, corpusVars, hybridVars, searchVars, judgeVars, fnVars>>

\* --compare: the algorithms loop runs the benchmark again with a fresh results
\* array (evaluate-search.ts:399-408)
NextAlgorithm ==
  /\ rpc = "reported"
  /\ script = "search"
  /\ compare
  /\ algo = 1
  /\ algo' = 2
  /\ qi' = 1
  /\ results' = <<>>
  /\ attempted' = <<>>
  /\ errored' = {}
  /\ rpc' = "loop"
  /\ UNCHANGED <<runEnv, diagnostic, report, reports, exitCode>>
  /\ UNCHANGED <<retryVars, batchVars, corpusVars, hybridVars, searchVars, judgeVars, fnVars>>

\* main ends: process.exit(1) if printResults said so (part_002:398-400), else
\* the process ends with code 0
Exit ==
  /\ rpc = "reported"
  /\ script = "search" => (~compare \/ algo = 2)
  /\ exitCode' = IF script = "ragas" /\ shouldFail(report) THEN 1 ELSE 0
  /\ rpc' = "exited"
  /\ UNCHANGED <<runEnv, diagnostic, algo, qi, results, attempted, errored, report, reports>>
  /\ UNCHANGED <<retryVars, batchVars, corpusVars, hybridVars, searchVars, judgeVars, fnVars>>

RunNext ==
  \/ ConfigError
  \/ DryRunExit
  \/ StartLoop
  \/ BeginQuery
  \/ RagasSearch
  \/ RagasGenerate
  \/ RagasJudge
  \/ SearchEvaluate
  \/ Report
  \/ NextAlgorithm
  \/ Exit

SpecRun == RunInit /\ [][RunNext]_vars

\* every await of the loop settles (the judge by its timeout at the latest) and
\* the event loop runs the continuation
FairSpecRun == SpecRun /\ WF_vars(RunNext)

\* ---------------------------------------------------- text_to_or_tsquery
\* The 'english' configuration's stemming and stop words are not modelled: a
\* term is the stripped word itself, matched as a prefix of a passage's lexemes.

\* characters of a query text: a lower-case letter, an upper-case letter and a
\* punctuation mark
Chars == {"a", "B", "-"}

\* the whitespace-separated pieces of a text (regexp_split_to_array yields an
\* empty piece for leading whitespace)
Words == UNION {[1..n -> Chars] : n \in 0..MaxWordLen}

\* a query text, as its pieces
Texts == UNION {[1..n -> Words] : n \in 1..2}

\* to_tsvector('english', s.text) of a passage: its lexemes
PassageLexemes ==
  {{<<"a", "a", "a", "b">>}, {<<"b", "a", "b">>, <<"a", "b", "a", "a">>}}

\* lower(query_text), character by character
Lower(w) == [i \in 1..Len(w) |-> IF w[i] = "B" THEN "b" ELSE w[i]]

\* regexp_replace(word, '[^a-z0-9]', '', 'g')
StripPunctuation(w) == SelectSeq(w, LAMBDA c : c \in {"a", "b"})

IsPrefix(t, lex) == Len(t) <= Len(lex) /\ \A i \in 1..Len(t) : lex[i] = t[i]

\* mutant: the operands are joined with AND, as plainto_tsquery joins them
MatchesTsquery_All(lexemes, tsq) ==
  /\ tsq # {}
  /\ \A t \in tsq : \E lex \in lexemes : IsPrefix(t, lex)

\* to_tsvector(...) @@ tsq for a tsquery that is the OR of the prefix terms tsq;
\* the empty tsquery matches nothing
MatchesTsquery(lexemes, tsq) ==
  \E t \in tsq : \E lex \in lexemes : IsPrefix(t, lex)

RECURSIVE OrTerms(_, _, _)
\* the FOREACH loop of text_to_or_tsquery from piece i on (part_004:189-209);
\* unconvertible are the pieces on which to_tsquery raises
OrTerms(words, unconvertible, i) ==
  IF i > Len(words) THEN {}
  ELSE LET word == Lower(words[i])
           rest == OrTerms(words, unconvertible, i + 1)
       IN IF Len(word) >= 3
          THEN LET stripped == StripPunctuation(word)
               IN IF Len(stripped) >= 3 /\ i \notin unconvertible
                  THEN {stripped} \cup rest
                  ELSE rest
          ELSE rest

\* part_004:174-218: the terms of the returned tsquery, none for to_tsquery('')
text_to_or_tsquery(words, unconvertible) == OrTerms(words, unconvertible, 1)

TsqueryInit ==
  /\ \E text \in Texts, lexemes \in PassageLexemes, bad \in {{}, {1}} :
       fnArg = [fn |-> "tsquery", text |-> text, lexemes |-> lexemes,
                unconvertible |-> bad]
  /\ fnVal = NoCall
  /\ CorpusParked /\ HybridIdle /\ SearchIdle /\ JudgeIdle /\ RunIdle /\ BatchIdle /\ RetryIdle

\* or_tsquery := text_to_or_tsquery(query_text), then
\* to_tsvector('english', s.text) @@ or_tsquery (part_004:256, 262)
BuildTsquery ==
  /\ fnVal = NoCall
  /\ LET tsq == text_to_or_tsquery(fnArg.text, fnArg.unconvertible)
     IN fnVal' = [fn |-> "tsquery", tsq |-> tsq,
                  matches |-> MatchesTsquery(fnArg.lexemes, tsq)]
  /\ UNCHANGED fnArg
  /\ UNCHANGED <<retryVars, batchVars, corpusVars, hybridVars, searchVars, judgeVars, runVars>>

TsqueryNext == BuildTsquery

SpecTsquery == TsqueryInit /\ [][TsqueryNext]_vars

\* ------------------------------------- the keyword-heavy onboarding test case

\* the corpus of the test: ten embedded passages the vector path returns
ScenarioPassages == 1..10

\* the passages whose text contains the word "onboarding"
OnboardingPassages == {1, 2, 3}

\* the query "onboarding flow" against that corpus, with the weights 0.7 / 0.3 and
\* the threshold 0.0 that testHybridSearch passes; every similarity is above the
\* threshold, the seven other passages share one similarity and match no token,
\* and the onboarding passages are numbered from the most similar one on
ScenarioInit ==
  /\ embedded = ScenarioPassages
  /\ kwmatch = OnboardingPassages
  /\ sim \in [ScenarioPassages -> {1, 2}]
  /\ \A p, q \in ScenarioPassages \ OnboardingPassages : sim[p] = sim[q]
  /\ \A p, q \in OnboardingPassages : p < q => sim[p] >= sim[q]
  /\ rank \in [ScenarioPassages -> RankVals \cup {0}]
  /\ \A p \in ScenarioPassages : rank[p] = 0 <=> p \notin OnboardingPassages
  /\ matchCount = 5
  /\ semanticWeight = DefaultSemanticWeight
  /\ keywordWeight = DefaultKeywordWeight
  /\ matchThreshold = 0
  /\ fnArg = [fn |-> "onboarding"]
  /\ fnVal = NoCall
  /\ HybridIdle /\ SearchIdle /\ JudgeIdle /\ RunIdle /\ BatchIdle /\ RetryIdle

\* countKeywordMatches(results, ["onboarding"]).inTop5 (part_005:323-342): the
\* rows among the first five whose text contains the keyword
countKeywordMatches(rows) ==
  Cardinality({i \in 1..Len(rows) : i <= 5 /\ rows[i].id \in OnboardingPassages})

\* runTest: the hybrid search of the test case and the count over its first five
\* rows, which are the rows hybrid_search returns for match_count = 5
RunOnboardingTest ==
  /\ fnVal = NoCall
  /\ \E out \in HybridSearchOutputs :
       fnVal' = [fn |-> "onboarding", inTop5 |-> countKeywordMatches(out),
                 returned |-> Len(out)]
  /\ UNCHANGED fnArg
  /\ UNCHANGED <<retryVars, batchVars, corpusVars, hybridVars, searchVars, judgeVars, runVars>>

ScenarioNext == RunOnboardingTest

SpecScenario == ScenarioInit /\ [][ScenarioNext]_vars

\* ------------------------------------------------------- estimateRelevance
\* Scores are in hundredths.  A golden query is [hasKeywords, numKeywords,
\* hasGuests, expectedOutcome]: whether mustIncludeKeywords is present, its
\* length, whether expectedGuests is present.  A search result is [kwMatches,
\* topicMatch, guestMatch, similarity]: how many of the keywords its text
\* includes, whether it includes the topic, whether its guest is an expected
\* one, and its similarity.  Keyword lists have at most 2 entries, which keeps
\* (keywordMatches / length) * 0.4 in whole hundredths.

\* lengths of a mustIncludeKeywords list
KeywordCounts == {0, 1, 2}

\* result.similarity, around the steps 0.3, 0.5, 0.7 of the bonus
SimilarityVals == {-50, 30, 31, 50, 51, 70, 71, 100}

GoldenQueries ==
  [hasKeywords : BOOLEAN, numKeywords : KeywordCounts, hasGuests : BOOLEAN,
   expectedOutcome : {"single-expert", "multi-expert"}]

SearchResults ==
  [kwMatches : KeywordCounts, topicMatch : BOOLEAN, guestMatch : BOOLEAN,
   similarity : SimilarityVals]

\* score += 0.3 / 0.2 / 0.1 by similarity (evaluate-search.ts:140-146)
SimilarityBonus(similarity) ==
  IF similarity > 70 THEN 30
  ELSE IF similarity > 50 THEN 20
  ELSE IF similarity > 30 THEN 10
  ELSE 0

\* the keyword or topic part (evaluate-search.ts:117-127); 0 / 0 for a present
\* but empty list
KeywordPart(result, goldenQuery) ==
  IF goldenQuery.hasKeywords
  THEN Quotient(result.kwMatches * 40, goldenQuery.numKeywords)
  ELSE IF result.topicMatch THEN Quotient(30, 1) ELSE Zero

\* the grade of a score that is a number (evaluate-search.ts:149-158)
GradeOf(score) ==
  IF score >= 70 THEN "highly_relevant"
  ELSE IF score >= 50 THEN "relevant"
  ELSE IF score >= 30 THEN "somewhat_relevant"
  ELSE "not_relevant"

\* evaluate-search.ts:109-161.  nan: the score is NaN (every comparison with it
\* is false, Math.min keeps it)
estimateRelevance(result, goldenQuery) ==
  LET part == KeywordPart(result, goldenQuery)
      guest == IF goldenQuery.hasGuests /\ result.guestMatch THEN 40 ELSE 0
      bonus == SimilarityBonus(result.similarity)
  IN IF part.nan
     THEN [grade |-> "not_relevant", score |-> 0, nan |-> TRUE]
     ELSE LET score == (part.num \div part.den) + guest + bonus
          IN [grade |-> GradeOf(score), score |-> Min2(score, 100), nan |-> FALSE]

RelevanceInit ==
  /\ \E goldenQuery \in GoldenQueries, result \in SearchResults :
       /\ result.kwMatches <= goldenQuery.numKeywords
       /\ ~goldenQuery.hasKeywords => goldenQuery.numKeywords = 0
       /\ fnArg = [fn |-> "estimateRelevance", goldenQuery |-> goldenQuery,
                   result |-> result]
  /\ fnVal = NoCall
  /\ CorpusParked /\ HybridIdle /\ SearchIdle /\ JudgeIdle /\ RunIdle /\ BatchIdle /\ RetryIdle

ApplyEstimateRelevance ==
  /\ fnVal = NoCall
  /\ fnVal' = [fn |-> "estimateRelevance",
               out |-> estimateRelevance(fnArg.result, fnArg.goldenQuery)]
  /\ UNCHANGED fnArg
  /\ UNCHANGED <<retryVars, batchVars, corpusVars, hybridVars, searchVars, judgeVars, runVars>>

RelevanceNext == ApplyEstimateRelevance

SpecRelevance == RelevanceInit /\ [][RelevanceNext]_vars

\* ------------------------------------------------- precision, recall, NDCG
\* The metric functions of evaluate-search.ts over a result list, a golden
\* query and K >= 0.  Their values are quotients [nan, num, den].

\* results.slice(0, k)
Slice(hits, k) == SubSeq(hits, 1, Min2(k, Len(hits)))

\* grade === "highly_relevant" || grade === "relevant"
IsRelevant(result, goldenQuery) ==
  estimateRelevance(result, goldenQuery).grade \in {"highly_relevant", "relevant"}

\* topK.filter(..).length
CountRelevant(topK, goldenQuery) ==
  Cardinality({i \in 1..Len(topK) : IsRelevant(topK[i], goldenQuery)})

calculatePrecision_OverReturned(hits, goldenQuery, k) ==
  LET topK == Slice(hits, k)
  IN IF Len(topK) = 0 THEN Zero
     ELSE Quotient(CountRelevant(topK, goldenQuery), Len(topK))

\* evaluate-search.ts:166-180
calculatePrecision(hits, goldenQuery, k) ==
  LET topK == Slice(hits, k)
  IN IF Len(topK) = 0 THEN Zero
     ELSE Quotient(CountRelevant(topK, goldenQuery), k)

\* Math.min(q, 1) of a non-negative quotient
MinOne(q) == IF q.num > q.den THEN Quotient(1, 1) ELSE q

calculateRecall_Unclamped(hits, goldenQuery, k) ==
  LET estimatedRelevant ==
        IF goldenQuery.expectedOutcome = "single-expert" THEN 3 ELSE 10
  IN Quotient(CountRelevant(Slice(hits, k), goldenQuery), estimatedRelevant)

\* evaluate-search.ts:185-202
calculateRecall(hits, goldenQuery, k) ==
  LET estimatedRelevant ==
        IF goldenQuery.expectedOutcome = "single-expert" THEN 3 ELSE 10
      foundRelevant == CountRelevant(Slice(hits, k), goldenQuery)
  IN MinOne(Quotient(foundRelevant, estimatedRelevant))

\* 1 / Math.log2(i + 2) for i = 0, 1, .., in thousandths
Log2Discount == <<1000, 631, 500, 431, 387, 356, 333, 315>>

\* the scores of the candidates, in order
RelevanceScores(topK, goldenQuery) ==
  [i \in 1..Len(topK) |-> estimateRelevance(topK[i], goldenQuery).score]

\* some candidate's score is NaN
SomeScoreNaN(topK, goldenQuery) ==
  \E i \in 1..Len(topK) : estimateRelevance(topK[i], goldenQuery).nan

\* the sum of scores[i] / Math.log2(i + 2)
DiscountedGain(scores) ==
  SumVals([i \in 1..Len(scores) |-> scores[i] * Log2Discount[i]])

InsertDescending_Ascending(x, sorted) ==
  LET n == Cardinality({i \in 1..Len(sorted) : sorted[i] <= x})
  IN SubSeq(sorted, 1, n) \o <<x>> \o SubSeq(sorted, n + 1, Len(sorted))

\* x put in its place in a list sorted by (a, b) => b - a
InsertDescending(x, sorted) ==
  LET n == Cardinality({i \in 1..Len(sorted) : sorted[i] >= x})
  IN SubSeq(sorted, 1, n) \o <<x>> \o SubSeq(sorted, n + 1, Len(sorted))

RECURSIVE SortDescending(_)
\* .sort((a, b) => b - a)
SortDescending(scores) ==
  IF scores = <<>> THEN <<>>
  ELSE InsertDescending(Head(scores), SortDescending(Tail(scores)))

calculateNDCG_Unguarded(hits, goldenQuery, k) ==
  LET topK == Slice(hits, k)
      scores == RelevanceScores(topK, goldenQuery)
  IN IF SomeScoreNaN(topK, goldenQuery) THEN Quotient(0, 0)
     ELSE Quotient(DiscountedGain(scores), DiscountedGain(SortDescending(scores)))

\* evaluate-search.ts:220-246.  A NaN score makes dcg and idcg NaN, idcg === 0
\* false and the result NaN.
calculateNDCG(hits, goldenQuery, k) ==
  LET topK == Slice(hits, k)
      scores == RelevanceScores(topK, goldenQuery)
      dcg == DiscountedGain(scores)
      idcg == DiscountedGain(SortDescending(scores))
  IN IF SomeScoreNaN(topK, goldenQuery) THEN Quotient(0, 0)
     ELSE IF idcg = 0 THEN Zero
     ELSE Quotient(dcg, idcg)

\* the golden queries of the metric runs: no keyword list, an empty one, one of
\* two keywords
MetricQueries ==
  {q \in GoldenQueries :
     /\ q.numKeywords # 1
     /\ ~q.hasKeywords => q.numKeywords = 0}

\* the search results of the metric runs
MetricResults ==
  {[kwMatches |-> 0, topicMatch |-> FALSE, guestMatch |-> FALSE, similarity |-> 30],
   [kwMatches |-> 0, topicMatch |-> TRUE, guestMatch |-> FALSE, similarity |-> 51],
   [kwMatches |-> 0, topicMatch |-> FALSE, guestMatch |-> TRUE, similarity |-> 71],
   [kwMatches |-> 2, topicMatch |-> FALSE, guestMatch |-> FALSE, similarity |-> 31],
   [kwMatches |-> 2, topicMatch |-> TRUE, guestMatch |-> TRUE, similarity |-> 100]}

ResultLists == UNION {[1..n -> MetricResults] : n \in 0..MaxResults}

MetricsInit ==
  /\ \E goldenQuery \in MetricQueries, hits \in ResultLists,
        k \in 0..(MaxResults + 1) :
       /\ \A i \in 1..Len(hits) : hits[i].kwMatches <= goldenQuery.numKeywords
       /\ fnArg = [fn |-> "metrics", goldenQuery |-> goldenQuery,
                   results |-> hits, k |-> k]
  /\ fnVal = NoCall
  /\ CorpusParked /\ HybridIdle /\ SearchIdle /\ JudgeIdle /\ RunIdle /\ BatchIdle /\ RetryIdle

ApplyPrecision ==
  /\ fnVal = NoCall
  /\ fnVal' = [fn |-> "calculatePrecision",
               out |-> calculatePrecision(fnArg.results, fnArg.goldenQuery, fnArg.k)]
  /\ UNCHANGED fnArg
  /\ UNCHANGED <<retryVars, batchVars, corpusVars, hybridVars, searchVars, judgeVars, runVars>>

ApplyRecall ==
  /\ fnVal = NoCall
  /\ fnVal' = [fn |-> "calculateRecall",
               out |-> calculateRecall(fnArg.results, fnArg.goldenQuery, fnArg.k)]
  /\ UNCHANGED fnArg
  /\ UNCHANGED <<retryVars, batchVars, corpusVars, hybridVars, searchVars, judgeVars, runVars>>

ApplyNDCG ==
  /\ fnVal = NoCall
  /\ fnVal' = [fn |-> "calculateNDCG",
               out |-> calculateNDCG(fnArg.results, fnArg.goldenQuery, fnArg.k)]
  /\ UNCHANGED fnArg
  /\ UNCHANGED <<retryVars, batchVars, corpusVars, hybridVars, searchVars, judgeVars, runVars>>

MetricsNext == ApplyPrecision \/ ApplyRecall \/ ApplyNDCG

SpecMetrics == MetricsInit /\ [][MetricsNext]_vars

\* ------------------------------------------ filters, statistics, breakdowns
\* The benchmark GOLDEN_QUERIES is a list of queries [id, type, topic,
\* difficulty]; id is the position in the list.

QueryTypes == {"keyword", "semantic"}
Topics == {"growth", "hiring"}
Difficulties == {"easy", "hard"}

\* an option that is not given (undefined, or the empty string: both are falsy)
NoOption == ""

FilterOptions ==
  [type : QueryTypes \cup {NoOption}, topic : Topics \cup {NoOption},
   difficulty : Difficulties \cup {NoOption}]

Benchmarks ==
  UNION {[1..n -> [type : QueryTypes, topic : Topics, difficulty : Difficulties]] :
           n \in 0..MaxBenchmark}

\* the predicate of GOLDEN_QUERIES.filter (part_012:569-574)
KeepsQuery(q, options) ==
  /\ ~(options.type # NoOption /\ q.type # options.type)
  /\ ~(options.topic # NoOption /\ q.topic # options.topic)
  /\ ~(options.difficulty # NoOption /\ q.difficulty # options.difficulty)

filterQueries_AnyCriterion(benchmark, options) ==
  SelectSeq(benchmark, LAMBDA q :
    \/ q.type = options.type
    \/ q.topic = options.topic
    \/ q.difficulty = options.difficulty)

\* part_012:564-577
filterQueries(benchmark, options) ==
  SelectSeq(benchmark, LAMBDA q : KeepsQuery(q, options))

\* number of queries of a benchmark with a value in a dimension
CountBy(benchmark, dimension, value) ==
  Cardinality({i \in 1..Len(benchmark) : benchmark[i][dimension] = value})

\* part_012:582-608.  byTopic has a key for every topic met in the loop
getQueryStats(benchmark) ==
  [total |-> Len(benchmark),
   byType |-> [t \in {"keyword", "semantic", "guest-specific", "mixed"} |->
                 CountBy(benchmark, "type", t)],
   byDifficulty |-> [d \in {"easy", "medium", "hard"} |->
                       CountBy(benchmark, "difficulty", d)],
   byTopic |-> [t \in {benchmark[i].topic : i \in 1..Len(benchmark)} |->
                  CountBy(benchmark, "topic", t)]]

\* evaluate-search.ts:346-366: the results of each key, in order, aggregated
groupMetrics(rs, groupBy) ==
  [key \in {rs[i][groupBy] : i \in 1..Len(rs)} |->
     aggregateMetrics(SelectSeq(rs, LAMBDA r : r[groupBy] = key))]

\* the filter of evaluate-search's main (evaluate-search.ts:387-396): topic,
\* then type
MainFilter(benchmark, options) ==
  LET byTopic == IF options.topic # NoOption
                 THEN SelectSeq(benchmark, LAMBDA q : q.topic = options.topic)
                 ELSE benchmark
  IN IF options.type # NoOption
     THEN SelectSeq(byTopic, LAMBDA q : q.type = options.type)
     ELSE byTopic

\* the EvaluationResult of a query (evaluate-search.ts:295-311)
EvaluationResultOf(q, m) ==
  [query |-> q.id, type |-> q.type, topic |-> q.topic,
   difficulty |-> q.difficulty, precision_at_5 |-> m]

RECURSIVE PushEvaluated(_, _, _)
\* the queries loop of one pass (evaluate-search.ts:410-444): the queries of
\* evaluated are pushed in order, the others throw
PushEvaluated(queries, evaluated, m) ==
  IF queries = <<>> THEN <<>>
  ELSE (IF Head(queries).id \in evaluated
        THEN <<EvaluationResultOf(Head(queries), m)>> ELSE <<>>)
       \o PushEvaluated(Tail(queries), evaluated, m)

BreakdownInit ==
  /\ \E b \in Benchmarks, options \in FilterOptions :
       fnArg = [fn |-> "breakdown",
                benchmark |-> [i \in 1..Len(b) |->
                                 [id |-> i, type |-> b[i].type, topic |-> b[i].topic,
                                  difficulty |-> b[i].difficulty]],
                options |-> options]
  /\ fnVal = NoCall
  /\ CorpusParked /\ HybridIdle /\ SearchIdle /\ JudgeIdle /\ RunIdle /\ BatchIdle /\ RetryIdle

ApplyFilterQueries ==
  /\ fnVal = NoCall
  /\ fnVal' = [fn |-> "filterQueries",
               out |-> filterQueries(fnArg.benchmark, fnArg.options)]
  /\ UNCHANGED fnArg
  /\ UNCHANGED <<retryVars, batchVars, corpusVars, hybridVars, searchVars, judgeVars, runVars>>

ApplyGetQueryStats ==
  /\ fnVal = NoCall
  /\ fnVal' = [fn |-> "getQueryStats", out |-> getQueryStats(fnArg.benchmark)]
  /\ UNCHANGED fnArg
  /\ UNCHANGED <<retryVars, batchVars, corpusVars, hybridVars, searchVars, judgeVars, runVars>>

\* one pass of evaluate-search's main up to its breakdowns
\* (evaluate-search.ts:387-450); every evaluated query gets the metric m, which
\* plays no part in the grouping
RunBreakdowns ==
  /\ fnVal = NoCall
  /\ LET queries == MainFilter(fnArg.benchmark, fnArg.options)
     IN \E evaluated \in SUBSET {queries[i].id : i \in 1..Len(queries)},
           m \in MetricVals :
          LET rs == PushEvaluated(queries, evaluated, m)
          IN fnVal' = [fn |-> "main", queries |-> queries, results |-> rs,
                       overall |-> aggregateMetrics(rs),
                       byType |-> groupMetrics(rs, "type"),
                       byTopic |-> groupMetrics(rs, "topic"),
                       byDifficulty |-> groupMetrics(rs, "difficulty")]
  /\ UNCHANGED fnArg
  /\ UNCHANGED <<retryVars, batchVars, corpusVars, hybridVars, searchVars, judgeVars, runVars>>

BreakdownNext == ApplyFilterQueries \/ ApplyGetQueryStats \/ RunBreakdowns

SpecBreakdown == BreakdownInit /\ [][BreakdownNext]_vars

\* ------------------------------------------------------------ evaluateBatch
\* evaluateBatch over inputs 1..n (the i-th input is the number i).  Every call
\* of evaluateWithRagas has its own child process, timer and promise: calls[k]
\* is the call made for inputs[k], [jpc, timer, proc, spawnFailed, promise,
\* input, record] with the meanings of the single call above.

\* options.concurrency; 3 is the default
ConcurrencyVals == {0, 1, 2, 3}

\* the scores a judge reports during a batch
BatchScores ==
  {sc \in RunJudgeScores :
     /\ sc.faithfulness # NULL
     /\ sc.answer_relevancy = TargetAnswerRelevancy
     /\ sc.context_precision = TargetContextPrecision}

\* no call has been made for the input
NotCalled ==
  [jpc |-> "idle", timer |-> "none", proc |-> "none", spawnFailed |-> FALSE,
   promise |-> Pending, input |-> 0, record |-> NoRecord]

\* inputs.slice(i, i + concurrency), as indices of inputs
BatchIndices(i) == {k \in 1..Len(inputs) : i < k /\ k <= i + concurrency}

BatchInit ==
  /\ \E n \in 0..MaxInputs : inputs = [k \in 1..n |-> k]
  /\ concurrency \in ConcurrencyVals
  /\ bpc = "loop"
  /\ bi = 0
  /\ calls = [k \in 1..Len(inputs) |-> NotCalled]
  /\ allResults = <<>>
  /\ completed = <<>>
  /\ CorpusParked /\ HybridIdle /\ SearchIdle /\ JudgeIdle /\ RunIdle /\ FnIdle /\ RetryIdle

\* batch.map((input) => evaluateWithRagas(input, evalOptions)) (ragas.ts:205-208):
\* every call of the batch runs up to its await, which spawns its child and arms
\* its timer (ragas.ts:99-123)
StartBatch ==
  /\ bpc = "loop"
  /\ bi < Len(inputs)
  /\ calls' = [k \in 1..Len(inputs) |->
                 IF k \in BatchIndices(bi)
                 THEN [NotCalled EXCEPT !.jpc = "waiting", !.timer = "armed",
                                        !.proc = "running", !.input = inputs[k]]
                 ELSE calls[k]]
  /\ bpc' = "awaiting"
  /\ UNCHANGED <<inputs, concurrency, bi, allResults, completed>>
  /\ UNCHANGED <<retryVars, corpusVars, hybridVars, searchVars, judgeVars, runVars, fnVars>>

\* the timeout callback of call k (ragas.ts:120-123)
CallTimeout(k) ==
  /\ calls[k].timer = "armed"
  /\ calls' = [calls EXCEPT
                 ![k].timer = "fired",
                 ![k].proc = IF calls[k].proc = "running" THEN "killed" ELSE calls[k].proc,
                 ![k].promise = Settle(calls[k].promise, Rejected("timeout"))]
  /\ UNCHANGED <<inputs, concurrency, bpc, bi, allResults, completed>>
  /\ UNCHANGED <<retryVars, corpusVars, hybridVars, searchVars, judgeVars, runVars, fnVars>>

\* the 'close' handler of call k (ragas.ts:136-156)
CallClose(k) ==
  /\ calls[k].proc \in {"running", "killed"}
  /\ \E exitZero \in BOOLEAN, out \in StdoutKinds, sc \in BatchScores :
       /\ calls[k].proc = "killed" => ~exitZero
       /\ calls[k].spawnFailed => (~exitZero /\ out = "empty")
       /\ calls' = [calls EXCEPT
                      ![k].proc = "closed",
                      ![k].timer = IF calls[k].timer = "armed" THEN "cleared"
                                   ELSE calls[k].timer,
                      ![k].promise = Settle(calls[k].promise,
                                            CloseSettlement(exitZero, out, sc))]
  /\ UNCHANGED <<inputs, concurrency, bpc, bi, allResults, completed>>
  /\ UNCHANGED <<retryVars, corpusVars, hybridVars, searchVars, judgeVars, runVars, fnVars>>

\* the 'error' handler of call k (ragas.ts:159-162): the child could not be
\* spawned, or could not be signalled
CallError(k) ==
  /\ calls[k].proc \in {"running", "killed"}
  /\ ~calls[k].spawnFailed
  /\ calls' = [calls EXCEPT
                 ![k].spawnFailed = TRUE,
                 ![k].timer = IF calls[k].timer = "armed" THEN "cleared"
                              ELSE calls[k].timer,
                 ![k].promise = Settle(calls[k].promise, Rejected("spawn_error"))]
  /\ UNCHANGED <<inputs, concurrency, bpc, bi, allResults, completed>>
  /\ UNCHANGED <<retryVars, corpusVars, hybridVars, searchVars, judgeVars, runVars, fnVars>>

\* the record call k returns: its own input with the record of its promise
\* (ragas.ts:70-86)
CallRecord(k) ==
  LET r == evaluateWithRagas(calls[k].promise)
  IN [input |-> calls[k].input, scores |-> r.scores, passed |-> r.passed]

\* the await of call k resumes and the call returns (ragas.ts:64-86)
CallReturn(k) ==
  /\ calls[k].jpc = "waiting"
  /\ calls[k].promise.state # "pending"
  /\ calls' = [calls EXCEPT ![k].jpc = "returned", ![k].record = CallRecord(k)]
  /\ completed' = Append(completed, k)
  /\ UNCHANGED <<inputs, concurrency, bpc, bi, allResults>>
  /\ UNCHANGED <<retryVars, corpusVars, hybridVars, searchVars, judgeVars, runVars, fnVars>>

\* mutant: the calls of the batch in the order they returned
BatchResults_CompletionOrder ==
  SelectSeq(completed, LAMBDA k : k \in BatchIndices(bi))

\* the calls whose records Promise.all yields: position j holds the value of
\* the j-th promise of the batch (ragas.ts:205-207)
BatchResults ==
  [j \in 1..Cardinality(BatchIndices(bi)) |-> bi + j]

\* mutant: the loop goes on as soon as one call of the batch has returned
AwaitBatch_NextAtOnce ==
  /\ bpc = "awaiting"
  /\ \E k \in BatchIndices(bi) : calls[k].jpc = "returned"
  /\ allResults' = allResults
  /\ bi' = bi + concurrency
  /\ bpc' = "loop"
  /\ UNCHANGED <<inputs, concurrency, calls, completed>>
  /\ UNCHANGED <<retryVars, corpusVars, hybridVars, searchVars, judgeVars, runVars, fnVars>>

\* the Promise.all of the batch resolves, results.push(...batchResults), and
\* i += concurrency (ragas.ts:203-210)
AwaitBatch ==
  /\ bpc = "awaiting"
  /\ \A k \in BatchIndices(bi) : calls[k].jpc = "returned"
  /\ allResults' = allResults \o [j \in 1..Len(BatchResults) |->
                                    calls[BatchResults[j]].record]
  /\ bi' = bi + concurrency
  /\ bpc' = "loop"
  /\ UNCHANGED <<inputs, concurrency, calls, completed>>
  /\ UNCHANGED <<retryVars, corpusVars, hybridVars, searchVars, judgeVars, runVars, fnVars>>

\* the loop condition fails: return results (ragas.ts:203, 212)
BatchReturn ==
  /\ bpc = "loop"
  /\ bi >= Len(inputs)
  /\ bpc' = "returned"
  /\ UNCHANGED <<inputs, concurrency, bi, calls, allResults, completed>>
  /\ UNCHANGED <<retryVars, corpusVars, hybridVars, searchVars, judgeVars, runVars, fnVars>>

BatchNext ==
  \/ StartBatch
  \/ \E k \in 1..Len(inputs) : CallTimeout(k)
  \/ \E k \in 1..Len(inputs) : CallClose(k)
  \/ \E k \in 1..Len(inputs) : CallError(k)
  \/ \E k \in 1..Len(inputs) : CallReturn(k)
  \/ AwaitBatch
  \/ BatchReturn

SpecBatch == BatchInit /\ [][BatchNext]_vars

\* ---------------------------------------------------------------- withRetry
\* withRetry(fn, context) of the LLM client (part_001:113-145).  Times are in
\* ms.

\* RETRY_CONFIG
MaxRetries == 5
InitialDelayMs == 1000
MaxDelayMs == 60000
BackoffMultiplier == 2

\* what fn can throw: an Error whose message names a rate limit, one that names
\* a timeout, one that names neither, and a value that is not an Error
ErrorKinds == {"rate limit", "timeout", "other", "not an Error"}

\* part_001:77-90
isRateLimitError(error) == error = "rate limit"

\* mutant: every error is retried
isRetryableError_Always(error) == TRUE

\* part_001:92-107
isRetryableError(error) ==
  IF isRateLimitError(error) THEN TRUE
  ELSE error = "timeout"

\* Math.random() * 0.3 * delay lies in [0, 0.3 * delay): its ends and its middle
Jitters(d) == {0, (3 * d) \div 20, ((3 * d) \div 10) - 1}

RetryInit ==
  /\ wpc = "calling"
  /\ attempt = 0
  /\ delay = InitialDelayMs
  /\ lastError = "none"
  /\ waits = <<>>
  /\ fnCalls = 0
  /\ CorpusParked /\ HybridIdle /\ SearchIdle /\ JudgeIdle /\ RunIdle /\ FnIdle /\ BatchIdle

\* return await fn() (part_001:121-122)
FnResolves ==
  /\ wpc = "calling"
  /\ fnCalls' = fnCalls + 1
  /\ wpc' = "returned"
  /\ UNCHANGED <<attempt, delay, lastError, waits>>
  /\ UNCHANGED <<batchVars, corpusVars, hybridVars, searchVars, judgeVars, runVars, fnVars>>

\* fn() rejects: the catch block up to the throw or the sleep (part_001:123-139)
FnRejects ==
  /\ wpc = "calling"
  /\ fnCalls' = fnCalls + 1
  /\ \E error \in ErrorKinds :
       /\ lastError' = error
       /\ IF ~isRetryableError(error) \/ attempt = MaxRetries
          THEN wpc' = "thrown" /\ waits' = waits
          ELSE /\ \E jitter \in Jitters(delay) :
                    waits' = Append(waits, Min2(delay + jitter, MaxDelayMs))
               /\ wpc' = "sleeping"
  /\ UNCHANGED <<attempt, delay>>
  /\ UNCHANGED <<batchVars, corpusVars, hybridVars, searchVars, judgeVars, runVars, fnVars>>

\* the sleep ends: delay *= backoffMultiplier, attempt++, and the loop calls fn
\* again (part_001:119, 139-140)
WakeUp ==
  /\ wpc = "sleeping"
  /\ delay' = delay * BackoffMultiplier
  /\ attempt' = attempt + 1
  /\ wpc' = "calling"
  /\ UNCHANGED <<lastError, waits, fnCalls>>
  /\ UNCHANGED <<batchVars, corpusVars, hybridVars, searchVars, judgeVars, runVars, fnVars>>

RetryNext == FnResolves \/ FnRejects \/ WakeUp

SpecRetry == RetryInit /\ [][RetryNext]_vars

\* every call of fn settles and every timer fires
FairSpecRetry == SpecRetry /\ WF_vars(RetryNext)

\* =================================================================== claims

Ids(rows) == {rows[i].id : i \in 1..Len(rows)}

\* the rows are match_segments rows in non-increasing similarity
RankedBySimilarity(rows) ==
  /\ \A i \in 1..Len(rows) : ~rows[i].hybrid
  /\ \A i \in 1..(Len(rows) - 1) : rows[i].similarity >= rows[i + 1].similarity

\* searchSegments has finished: it returned data, or search() rethrew its error
SearchSegmentsDone ==
  /\ ~semanticOnly
  /\ \/ pc = "transform"
     \/ pc = "idle" /\ outcome.kind \in {"returned", "thrown"}

\* C1: whenever the hybrid_search rpc has failed, with whatever message, while
\* match_segments answers and some passage is above the threshold, searchSegments
\* does not throw and returns a non-empty list ranked by semantic similarity.
C1_FallbackOnAnyHybridError ==
  (SearchSegmentsDone /\ rpcError # "none" /\ semanticUp /\ AboveThreshold # {})
    => /\ outcome.kind # "thrown"
       /\ Len(data) > 0
       /\ RankedBySimilarity(data)

\* the passages the vector path returns whatever the executor does
VectorCandidates == {p \in Passages : \A S \in SemanticSets : p \in S}

Occurrences(rows, p) == Cardinality({i \in 1..Len(rows) : rows[i].id = p})

CarriesBothScores(row) ==
  /\ row.semantic_similarity = sim[row.id]
  /\ row.keyword_rank = rank[row.id]

SortedByScoreThenId(rows, score(_)) ==
  \A i, j \in 1..Len(rows) :
    i < j => \/ score(rows[i]) > score(rows[j])
             \/ score(rows[i]) = score(rows[j]) /\ rows[i].id < rows[j].id

RowCombinedScore(row) == row.combined_score

RowSimilarity(row) == row.similarity

\* C3: the list hybrid_search returns, and the list search() makes of it, are in
\* descending fused score with equal scores in passage-id order.
C3_SortedTiesById ==
  (~semanticOnly /\ rpcError = "none") =>
    /\ pc = "transform" => SortedByScoreThenId(data, RowCombinedScore)
    /\ outcome.kind = "returned" => SortedByScoreThenId(outcome.rows, RowSimilarity)

\* C4: with weights summing to 1, every returned candidate has its similarity,
\* its normalized keyword rank and its combined score in [0, 1].
C4_ScoresInUnitInterval ==
  (lastHybrid # <<>> /\ semanticWeight + keywordWeight = WeightScale) =>
    \A i \in 1..Len(lastHybrid[1]) :
      LET row == lastHybrid[1][i]
      IN /\ 0 <= row.semantic_similarity /\ row.semantic_similarity <= SimScale
         /\ 0 <= row.keyword_rank /\ row.keyword_rank <= max_keyword_rank
         /\ 0 <= row.combined_score
         /\ row.combined_score <= SimScale * WeightScale * max_keyword_rank

\* C5: two invocations of hybrid_search on the same corpus, query, weights,
\* threshold and matchCount return the same rows in the same order.
C5_SameInputsSameOutput ==
  (lastHybrid # <<>> /\ prevHybrid # <<>>) => lastHybrid = prevHybrid

JudgeCallFailed ==
  \/ cause.event \in {"timeout", "error"}
  \/ cause.event = "close" /\ cause.out \in {"empty", "garbage", "json_error"}

\* C7: evaluateWithRagas never throws, and after any failure of the judge call
\* (timeout, spawn failure, invalid JSON, error field) it returns a record with
\* three null scores, a non-null error and passed = false.
C7_JudgeFailureYieldsNullRecord ==
  /\ record.kind # "thrown"
  /\ (jpc = "returned" /\ JudgeCallFailed) =>
       /\ record.kind = "returned"
       /\ record.scores.faithfulness = NULL
       /\ record.scores.answer_relevancy = NULL
       /\ record.scores.context_precision = NULL
       /\ record.scores.error # "null"
       /\ ~record.passed

\* the call returned after its timeout had killed a child that was still running
C7_Witness ==
  /\ jpc = "returned"
  /\ cause.event = "timeout"
  /\ record.scores.error = "timeout"

\* the judged-quality run went through its loop and has ended
RagasRunEnded ==
  /\ script = "ragas"
  /\ rpc = "exited"
  /\ ConfigOK
  /\ ~dryRun

\* some aggregate average of the report is below its alert threshold
SomeAverageBelowAlert(aggregate) ==
  \/ AverageBelow(aggregate.sums.faithfulness, aggregate.valid, AlertFaithfulness)
  \/ AverageBelow(aggregate.sums.answer_relevancy, aggregate.valid, AlertAnswerRelevancy)
  \/ AverageBelow(aggregate.sums.context_precision, aggregate.valid,
                  AlertContextPrecision)

\* C8: a judged-quality run that passed its configuration checks exits 1 iff at
\* least one of the three aggregate averages is below its alert threshold, and
\* exits 0 otherwise.
C8_ExitOneIffSomeAverageBelowAlert ==
  RagasRunEnded => (exitCode = 1 <=> SomeAverageBelowAlert(report))

\* C9: when queries of the run have failed (some or all), the run exits non-zero
\* only if an average over the remaining valid records is below its alert
\* threshold; failures alone never produce exit code 1.
C9_FailuresAloneNeverFailRun ==
  (RagasRunEnded /\ errored # {}) =>
    (exitCode = 1 => (report.valid > 0 /\ SomeAverageBelowAlert(report)))

\* the records of the queries that did not fail
Survivors == SelectSeq(results, LAMBDA r : r.query \notin errored)

\* the report averages exactly the records of the queries that did not fail
ReportOverSurvivors ==
  /\ report.valid = Len(Survivors)
  /\ report.sums.faithfulness =
       (IF script = "ragas" THEN SumScores(Survivors, "faithfulness")
        ELSE SumMetric(Survivors))
  /\ script = "ragas" =>
       /\ report.sums.answer_relevancy = SumScores(Survivors, "answer_relevancy")
       /\ report.sums.context_precision = SumScores(Survivors, "context_precision")

\* the loop over the benchmark is still running
InLoop == rpc \in {"loop", "search", "generate", "judge"}

\* the aggregate report of the current pass has been printed
Reported == rpc = "reported" /\ Len(attempted) = numQueries

\* C10: a query whose search, generation or judge call fails is caught inside
\* that query: queries are attempted in benchmark order, a failure is always
\* followed by the aggregate report over the whole filtered benchmark, and the
\* failed queries contribute nothing to the averages of that report.
C10_FailureCaughtRunReachesReport ==
  /\ [](\A i \in 1..Len(attempted) : attempted[i] = i)
  /\ [](rpc = "reported" => (Len(attempted) = numQueries /\ ReportOverSurvivors))
  /\ (errored # {} /\ InLoop) ~> Reported

\* the first query failed in the judge, a later one was judged, and the report
\* is out
C10_Witness ==
  /\ Reported
  /\ script = "ragas"
  /\ 1 \in errored
  /\ Len(results) > Cardinality(errored)
  /\ report.valid > 0

\* required credentials are missing: the Langfuse keys, or (for the judged-quality
\* run) both the Azure OpenAI and the OpenAI credentials
CredentialsMissing ==
  \/ ~langfuseKeys
  \/ script = "ragas" /\ ~azureOpenAI /\ ~openAI

\* C11: when required credentials are missing the run ends with exit code 1 and
\* a diagnostic, and no query is ever searched, answered or judged; no query
\* operation precedes the configuration check.
C11_MissingCredentialsFailFast ==
  /\ [](CredentialsMissing =>
          /\ rpc \in {"start", "exited"}
          /\ attempted = <<>> /\ results = <<>> /\ errored = {})
  /\ [](rpc = "start" => (attempted = <<>> /\ results = <<>>))
  /\ CredentialsMissing ~> (rpc = "exited" /\ exitCode = 1 /\ diagnostic # "none")

\* the judged-quality run has stopped on missing LLM credentials
C11_Witness ==
  /\ script = "ragas"
  /\ langfuseKeys /\ ~azureOpenAI /\ ~openAI
  /\ rpc = "exited"
  /\ exitCode = 1
  /\ diagnostic = "llm"

Metrics == {"faithfulness", "answer_relevancy", "context_precision"}

\* the non-error records of the run that carry a score for the metric
Scored(metric) ==
  SelectSeq(results, LAMBDA r : r.scores.error = "null" /\ r.scores[metric] # NULL)

\* q is the number 0
IsZero(q) == ~q.nan /\ q.num = 0

\* q is the number num / den
IsFraction(q, num, den) == ~q.nan /\ q.num * den = num * q.den

\* C12: each average of aggregateResults is the arithmetic mean of the metric over
\* exactly the non-error records; an errored record changes neither numerator nor
\* denominator and a null score is never counted as a score of 0.
C12_AverageIsMeanOfScoredRecords ==
  (script = "ragas" /\ rpc = "reported") =>
    \A metric \in Metrics :
      LET scored == Scored(metric)
          total == SumVals([i \in 1..Len(scored) |-> scored[i].scores[metric]])
      IN IF Len(scored) = 0 THEN IsZero(report.averages[metric])
         ELSE IsFraction(report.averages[metric], total, Len(scored))

\* every record of the pass is an error record (none, when the list is empty)
OnlyErrorRecords ==
  \A i \in 1..Len(results) : script = "ragas" /\ results[i].scores.error # "null"

\* C13: the aggregate of an empty record list has count 0 and every average, and
\* the pass rate, equal to the number 0, for aggregateResults and for
\* aggregateMetrics; aggregateResults also returns all-zero averages when every
\* record is an error record.
C13_EmptyAggregateIsZero ==
  (rpc = "reported" /\ OnlyErrorRecords) =>
    /\ report.count = Len(results)
    /\ \A metric \in Metrics : IsZero(report.averages[metric])
    /\ IsZero(report.passRate)

\* a judged-quality run whose only records are error records has reported
C13_Witness ==
  /\ rpc = "reported"
  /\ script = "ragas"
  /\ results # <<>>
  /\ OnlyErrorRecords
  /\ report.count = Len(results)

\* the case-folded, punctuation-stripped form of piece i of the text
TokenOf(i) == SelectSeq(Lower(fnArg.text[i]), LAMBDA c : c # "-")

\* piece i is a token: its form has length >= 3 and to_tsquery accepts it
IsToken(i) == Len(TokenOf(i)) >= 3 /\ i \notin fnArg.unconvertible

\* the passage matches the (prefix) token of piece i
PassageMatchesToken(i) == \E lex \in fnArg.lexemes : IsPrefix(TokenOf(i), lex)

C15_TopFiveHoldsOnboardingPassages ==
  fnVal.fn = "onboarding" => fnVal.inTop5 = Cardinality(OnboardingPassages)

\* the scores of the whole result list of the call
ArgScores == RelevanceScores(fnArg.results, fnArg.goldenQuery)

\* every relevance of the call is a number
ArgScoresNumeric == ~SomeScoreNaN(fnArg.results, fnArg.goldenQuery)

\* the K highest scores of the list are its first K, in non-increasing order,
\* and one of them is not 0
IdealOrder ==
  LET n == Min2(fnArg.k, Len(fnArg.results))
  IN /\ ArgScoresNumeric
     /\ \A i \in 1..n : \A j \in (i + 1)..Len(fnArg.results) :
          ArgScores[i] >= ArgScores[j]
     /\ \E i \in 1..n : ArgScores[i] > 0

\* C16: when the K highest-relevance candidates are at the top in non-increasing
\* relevance order and one of them has non-zero relevance, calculateNDCG
\* returns exactly 1.
C16_IdealOrderGivesNDCGOne ==
  (fnVal.fn = "calculateNDCG" /\ IdealOrder) =>
    (~fnVal.out.nan /\ fnVal.out.den # 0 /\ fnVal.out.num = fnVal.out.den)

C16_Witness ==
  /\ fnVal.fn = "calculateNDCG"
  /\ IdealOrder
  /\ fnArg.k = 2
  /\ Len(fnArg.results) = 3
  /\ ArgScores[1] > ArgScores[2]
  /\ ArgScores[2] > ArgScores[3]
  /\ fnVal.out.num = fnVal.out.den

\* every candidate of the list has relevance 0 (also the empty list)
AllIrrelevant ==
  /\ ArgScoresNumeric
  /\ \A i \in 1..Len(fnArg.results) : ArgScores[i] = 0

\* C17: when every candidate has relevance 0, or the list is empty,
\* calculateNDCG returns exactly 0, not NaN, for every K.
C17_NoRelevanceGivesNDCGZero ==
  (fnVal.fn = "calculateNDCG" /\ AllIrrelevant) => IsZero(fnVal.out)

C17_Witness ==
  /\ fnVal.fn = "calculateNDCG"
  /\ AllIrrelevant
  /\ Len(fnArg.results) >= 2
  /\ fnArg.k >= 2
  /\ IsZero(fnVal.out)

\* C18: for every candidate and query (keywords, no mustIncludeKeywords field, a
\* present but empty list) estimateRelevance returns a number in [0, 1]: keyword
\* fraction x 0.4, or 0.3 for a topic match without keywords, plus 0.4 for an
\* expected guest, plus the similarity bonus, clamped to 1; and the grade the
\* thresholds 0.7 / 0.5 / 0.3 give that score.
C18_RelevanceScoreInUnitInterval ==
  fnVal.fn = "estimateRelevance" =>
    LET q == fnArg.goldenQuery
        r == fnArg.result
        out == fnVal.out
    IN /\ ~out.nan
       /\ 0 <= out.score /\ out.score <= 100
       /\ \E part \in 0..40 :
            /\ IF q.hasKeywords THEN part * q.numKeywords = r.kwMatches * 40
               ELSE part = (IF r.topicMatch THEN 30 ELSE 0)
            /\ out.score =
                 Min2(part + (IF q.hasGuests /\ r.guestMatch THEN 40 ELSE 0)
                        + SimilarityBonus(r.similarity), 100)
       /\ out.grade = GradeOf(out.score)

\* the relevant candidates among the first K of the call
RelevantInTopK ==
  Cardinality({i \in 1..Min2(fnArg.k, Len(fnArg.results)) :
                 IsRelevant(fnArg.results[i], fnArg.goldenQuery)})

\* 0 <= q <= 1
InUnitInterval(q) == ~q.nan /\ q.den > 0 /\ 0 <= q.num /\ q.num <= q.den

\* C19: calculatePrecision returns (highly_relevant or relevant candidates among
\* the first K) / K, dividing by K also when fewer than K results came back; 0
\* when K is 0 or the list is empty; always within [0, 1].
C19_PrecisionDividesByK ==
  fnVal.fn = "calculatePrecision" =>
    /\ IF fnArg.k = 0 \/ fnArg.results = <<>>
       THEN IsZero(fnVal.out)
       ELSE IsFraction(fnVal.out, RelevantInTopK, fnArg.k)
    /\ InUnitInterval(fnVal.out)

C19_Witness ==
  /\ fnVal.fn = "calculatePrecision"
  /\ Len(fnArg.results) = 2
  /\ fnArg.k = 3
  /\ RelevantInTopK = 2
  /\ IsFraction(fnVal.out, 2, 3)

\* T of the recall estimate
EstimatedTotal == IF fnArg.goldenQuery.expectedOutcome = "single-expert" THEN 3 ELSE 10

\* C20: calculateRecall returns min(r / T, 1), r the relevant candidates among
\* the first K and T = 3 for a single-expert query, 10 otherwise; within
\* [0, 1], and 0 for an empty list.
C20_RecallIsClampedShare ==
  fnVal.fn = "calculateRecall" =>
    /\ IF RelevantInTopK >= EstimatedTotal
       THEN IsFraction(fnVal.out, 1, 1)
       ELSE IsFraction(fnVal.out, RelevantInTopK, EstimatedTotal)
    /\ InUnitInterval(fnVal.out)
    /\ fnArg.results = <<>> => IsZero(fnVal.out)

C20_Witness ==
  /\ fnVal.fn = "calculateRecall"
  /\ fnArg.goldenQuery.expectedOutcome = "single-expert"
  /\ RelevantInTopK = 4
  /\ IsFraction(fnVal.out, 1, 1)

RECURSIVE SumOver(_, _)
\* the sum of f over the keys S
SumOver(f, S) ==
  IF S = {} THEN 0
  ELSE LET x == CHOOSE y \in S : TRUE IN f[x] + SumOver(f, S \ {x})

\* the group counts of a breakdown
GroupCounts(groups) == [key \in DOMAIN groups |-> groups[key].count]

\* every record of the pass is in the group of its key, the group counts are the
\* numbers of records with that key, and they sum to the overall count
Partitions(groups, dimension) ==
  LET rs == fnVal.results
  IN /\ \A i \in 1..Len(rs) : rs[i][dimension] \in DOMAIN groups
     /\ \A key \in DOMAIN groups : groups[key].count = CountBy(rs, dimension, key)
     /\ SumOver(GroupCounts(groups), DOMAIN groups) = fnVal.overall.count
     /\ fnVal.overall.count = Len(rs)

\* C21: filtering keeps exactly the queries that satisfy every given criterion,
\* in benchmark order; each query is in one bucket per dimension of
\* getQueryStats and each evaluated record in one group of groupMetrics, so the
\* counts of any dimension sum to the overall count; the per-topic breakdown of
\* a run filtered to one topic holds that topic's records and nothing else.
C21_BreakdownsPartitionRecords ==
  /\ fnVal.fn = "filterQueries" =>
       LET b == fnArg.benchmark
           o == fnArg.options
           out == fnVal.out
           Satisfies(q) == /\ o.type # NoOption => q.type = o.type
                           /\ o.topic # NoOption => q.topic = o.topic
                           /\ o.difficulty # NoOption => q.difficulty = o.difficulty
       IN /\ {out[i].id : i \in 1..Len(out)} = {b[i].id : i \in {j \in 1..Len(b) : Satisfies(b[j])}}
          /\ \A i \in 1..Len(out) : out[i] = b[out[i].id]
          /\ \A i \in 1..Len(out) : \A j \in (i + 1)..Len(out) : out[i].id < out[j].id
  /\ fnVal.fn = "getQueryStats" =>
       LET b == fnArg.benchmark
           out == fnVal.out
       IN /\ out.total = Len(b)
          /\ SumOver(out.byType, DOMAIN out.byType) = out.total
          /\ SumOver(out.byDifficulty, DOMAIN out.byDifficulty) = out.total
          /\ SumOver(out.byTopic, DOMAIN out.byTopic) = out.total
          /\ \A i \in 1..Len(b) :
               /\ b[i].type \in DOMAIN out.byType
               /\ b[i].difficulty \in DOMAIN out.byDifficulty
               /\ b[i].topic \in DOMAIN out.byTopic
  /\ fnVal.fn = "main" =>
       /\ Partitions(fnVal.byType, "type")
       /\ Partitions(fnVal.byTopic, "topic")
       /\ Partitions(fnVal.byDifficulty, "difficulty")
       /\ fnArg.options.topic # NoOption =>
            /\ DOMAIN fnVal.byTopic \subseteq {fnArg.options.topic}
            /\ \A i \in 1..Len(fnVal.queries) :
                 fnVal.queries[i].topic = fnArg.options.topic
            /\ Len(fnVal.queries) = CountBy(fnArg.benchmark, "topic", fnArg.options.topic)
                 \/ fnArg.options.type # NoOption

C21_Witness ==
  /\ fnVal.fn = "main"
  /\ fnArg.options.topic = "growth"
  /\ Len(fnArg.benchmark) = 2
  /\ fnArg.benchmark[2].topic = "hiring"
  /\ DOMAIN fnVal.byTopic = {"growth"}
  /\ fnVal.byTopic["growth"].count = 1
  /\ fnVal.overall.count = 1

C21_FilterWitness ==
  /\ fnVal.fn = "filterQueries"
  /\ fnArg.options.type # NoOption
  /\ fnArg.options.difficulty # NoOption
  /\ Len(fnArg.benchmark) = 2
  /\ Len(fnVal.out) = 1

\* the queries the report counts as evaluated: the records its averages are
\* taken over
ReportEvaluated == report.valid

\* the queries the report counts as errored: its records that carry an error
ReportErrored == report.count - report.valid

\* C22: the final report of a run that passed its configuration checks accounts
\* for each query of the filtered benchmark exactly once, as evaluated or as
\* errored: evaluated + errored = queries in the filtered benchmark.
C22_ReportAccountsForEveryQuery ==
  rpc = "reported" => ReportEvaluated + ReportErrored = numQueries

\* the calls that have been started and have not returned
Outstanding == {k \in 1..Len(inputs) : calls[k].jpc = "waiting"}

\* the calls that have been started
Started == {k \in 1..Len(inputs) : calls[k].jpc # "idle"}

\* the number of the batch input k belongs to
BatchOf(k) == (k - 1) \div concurrency

SettledWithoutTimeout(k) ==
  calls[k].promise.state # "pending" /\ calls[k].promise.reason # "timeout"

\* C24: a judge call settles exactly once under every interleaving of its
\* timeout, its child closing and a spawn error: when the timeout fires first
\* the child is killed and the outcome is the timeout error, which a later close
\* cannot change; when close or error comes first the timer is cleared and never
\* fires; the timeout of one call changes nothing of another call.
C24_CallSettlesOnce ==
  /\ [][\A k \in 1..Len(inputs) :
          calls[k].promise.state # "pending" => calls'[k].promise = calls[k].promise]_vars
  /\ [](\A k \in 1..Len(inputs) :
          calls[k].timer = "fired" =>
            /\ calls[k].proc \in {"killed", "closed"}
            /\ calls[k].promise = Rejected("timeout")
            /\ calls[k].jpc = "returned" =>
                 (calls[k].record.scores.error = "timeout" /\ ~calls[k].record.passed))
  /\ [](\A k \in 1..Len(inputs) : SettledWithoutTimeout(k) => calls[k].timer = "cleared")
  /\ [][\A k \in 1..Len(inputs) :
          calls[k].timer = "cleared" => calls'[k].timer = "cleared"]_vars
  /\ [][\A k \in 1..Len(inputs) :
          (calls[k].timer # "fired" /\ calls'[k].timer = "fired") =>
            \A j \in 1..Len(inputs) : j # k => calls'[j] = calls[j]]_vars

\* of two concurrent calls the first timed out, its child closed afterwards and
\* it returned the timeout error; the second was judged and passed
C24_Witness ==
  /\ Len(inputs) = 2
  /\ concurrency = 2
  /\ calls[1].timer = "fired"
  /\ calls[1].proc = "closed"
  /\ calls[1].jpc = "returned"
  /\ calls[1].record.scores.error = "timeout"
  /\ calls[2].timer = "cleared"
  /\ calls[2].jpc = "returned"
  /\ calls[2].record.passed

\* C25: whatever order the calls of a batch return in, every record of the
\* results array belongs to the input it was computed for, and evaluateBatch
\* returns one record per input with results[i].input = inputs[i].
C25_ResultsFollowInputs ==
  /\ \A i \in 1..Len(allResults) :
       /\ i <= Len(inputs)
       /\ allResults[i].input = inputs[i]
       /\ allResults[i] = calls[i].record
       /\ calls[i].input = inputs[i]
  /\ bpc = "returned" => Len(allResults) = Len(inputs)

C25_Witness ==
  /\ bpc = "returned"
  /\ concurrency = 3
  /\ Len(inputs) = 3
  /\ completed = <<3, 1, 2>>
  /\ allResults[1].passed
  /\ ~allResults[3].passed

\* the passages no execution of the semantic CTE returns
NeverVectorCandidate == {p \in Passages : \A S \in SemanticSets : p \notin S}

\* C26: a candidate found by one retrieval path only is fused with the other
\* path's score taken as 0: combined_score is similarity x semantic_weight for a
\* vector-only candidate and normalized rank x keyword_weight for a candidate
\* the vector path did not return.
C26_OtherPathCountsAsZero ==
  lastHybrid # <<>> =>
    \A i \in 1..Len(lastHybrid[1]) :
      LET row == lastHybrid[1][i]
      IN /\ row.id \notin kwmatch =>
              row.combined_score = sim[row.id] * semanticWeight * max_keyword_rank
         /\ (row.id \in kwmatch /\ row.id \in NeverVectorCandidate) =>
              row.combined_score = rank[row.id] * keywordWeight * SimScale

\* the highest raw rank among the passages that match the query, 0 if none does
MaxRawRank == IF kwmatch = {} THEN 0 ELSE Max({rank[p] : p \in kwmatch})

\* C27: the lexical score used in fusion is the passage's raw rank over the
\* maximum raw rank of all passages matching the query, so it is in [0, 1] and 1
\* for the best lexical match; when no passage matches or the maximum is 0 the
\* divisor is 1, and it is never 0.
C27_RankNormalizedByMaximum ==
  lastHybrid # <<>> =>
    /\ max_keyword_rank = (IF MaxRawRank = 0 THEN 1 ELSE MaxRawRank)
    /\ max_keyword_rank # 0
    /\ \A i \in 1..Len(lastHybrid[1]) :
         LET row == lastHybrid[1][i]
         IN /\ row.keyword_rank = (IF row.id \in kwmatch THEN rank[row.id] ELSE 0)
            /\ 0 <= row.keyword_rank
            /\ row.keyword_rank <= max_keyword_rank
            /\ (row.id \in kwmatch /\ rank[row.id] = MaxRawRank /\ MaxRawRank > 0) =>
                 row.keyword_rank = max_keyword_rank

\* both passages match, the output holds the better one with score 1 and the
\* other with score 1/2
C27_Witness ==
  /\ lastHybrid # <<>>
  /\ MaxRawRank = 2
  /\ Len(lastHybrid[1]) = 2
  /\ \E i, j \in 1..2 :
       /\ lastHybrid[1][i].keyword_rank = 2
       /\ lastHybrid[1][j].keyword_rank = 1

\* the K highest scores of the whole result list of the call, in descending
\* order
IdealOfWholeList == Slice(SortDescending(ArgScores), fnArg.k)

\* C28: NDCG@K is DCG / IDCG, DCG summing score / log2(i + 2) over the first K
\* results and IDCG summing the same over the K highest scores of the whole
\* candidate list in descending order (0 when IDCG is 0); so it is in [0, 1],
\* and below 1 whenever a candidate below position K has a higher score than one
\* inside the top K.
C28_IdealFromWholeCandidateList ==
  (fnVal.fn = "calculateNDCG" /\ ArgScoresNumeric) =>
    LET dcg == DiscountedGain(Slice(ArgScores, fnArg.k))
        idcg == DiscountedGain(IdealOfWholeList)
        n == Len(fnArg.results)
    IN /\ IF idcg = 0 THEN IsZero(fnVal.out)
          ELSE /\ ~fnVal.out.nan
               /\ fnVal.out.num = dcg
               /\ dcg # 0 => fnVal.out.den = idcg
       /\ InUnitInterval(fnVal.out)
       /\ (\E i \in 1..Min2(fnArg.k, n) : \E j \in (fnArg.k + 1)..n :
             ArgScores[j] > ArgScores[i])
            => fnVal.out.num < fnVal.out.den

\* the least whole number of hundredths not below num / den; a value is above a
\* whole step exactly when this number is
HundredthsUp(num, den) == -((-(num * 100)) \div den)

\* result.similarity of a row search() returned, in hundredths
ReturnedSimilarity(row) ==
  IF row.hybrid
  THEN HundredthsUp(row.similarity, SimScale * WeightScale * max_keyword_rank)
  ELSE HundredthsUp(row.similarity, SimScale)

\* the cosine similarity of a passage to the query, in hundredths
CosineSimilarity(p) == HundredthsUp(sim[p], SimScale)

\* C29: the similarity bonus of relevance estimation is determined by the
\* candidate's cosine similarity to the query, under the hybrid and under the
\* semantic-only algorithm alike, so a passage gets the same bonus in both arms
\* of a comparison.
C29_BonusFromCosineSimilarity ==
  outcome.kind = "returned" =>
    \A i \in 1..Len(outcome.rows) :
      SimilarityBonus(ReturnedSimilarity(outcome.rows[i]))
        = SimilarityBonus(CosineSimilarity(outcome.rows[i].id))

\* withRetry has returned or thrown
RetryEnded == wpc \in {"returned", "thrown"}

\* an error that is neither a rate limit nor a transient failure
FatalError(error) == error \in {"other", "not an Error"}

\* C30: withRetry terminates and calls the operation at most maxRetries + 1 = 6
\* times: it returns at the first success, rethrows a fatal error at once
\* without waiting or retrying, rethrows the last error when the retries are
\* used up, and waits at most maxDelayMs before a retry, on a base delay that
\* doubles after every failed attempt.
C30_RetryTerminatesWithinSixCalls ==
  /\ [](fnCalls <= MaxRetries + 1 /\ MaxRetries + 1 = 6)
  /\ [](wpc # "idle" => fnCalls = attempt + (IF wpc = "calling" THEN 0 ELSE 1))
  /\ [][RetryEnded => UNCHANGED retryVars]_vars
  /\ [](FatalError(lastError) => (wpc = "thrown" /\ Len(waits) = attempt))
  /\ [](wpc = "thrown" => (FatalError(lastError) \/ attempt = MaxRetries))
  /\ [](wpc = "sleeping" => (~FatalError(lastError) /\ attempt < MaxRetries))
  /\ [](wpc # "idle" => delay = InitialDelayMs * (2 ^ attempt))
  /\ [](\A i \in 1..Len(waits) :
          /\ waits[i] <= MaxDelayMs
          /\ waits[i] >= InitialDelayMs * (2 ^ (i - 1)))
  /\ <>RetryEnded

\* six calls failed with retryable errors and the last error was rethrown
C30_Witness ==
  /\ wpc = "thrown"
  /\ fnCalls = 6
  /\ Len(waits) = 5
  /\ lastError = "rate limit"

====
